---- MODULE Spec2Model ----
(***************************************************************************)
(* Verification model of the lllucius/chat backend.  The repository ships  *)
(* two backends: Variant A (package app/) and Variant B (package           *)
(* src/chat/).  Each subsystem has its own specification over the shared   *)
(* variables:                                                              *)
(*   SpecAccess    bearer-token authentication of the HTTP routes          *)
(*   SpecRegister  Variant A user registration                             *)
(*   SpecChat      chat turns (single-shot and streamed, both variants)    *)
(*   SpecDocs      document upload / fetch / delete (both variants)        *)
(***************************************************************************)
EXTENDS Integers, Sequences, FiniteSets, TLC

VARIABLES now, tok, resp, vres,
          users, profiles, reg,
          conversations, messages, turn,
          documents, upl, fetched,
          probe,
          login,
          sess,
          cli,
          ctx,
          bg,
          cc,
          st,
          dst,
          repl,
          chk

accessVars == <<now, tok, resp, vres>>
regVars    == <<users, profiles, reg>>
chatVars   == <<conversations, messages, turn>>
docVars    == <<documents, upl, fetched>>
vars       == <<now, tok, resp, vres, users, profiles, reg,
                conversations, messages, turn, documents, upl, fetched,
                probe,
                login,
                sess,
                cli,
                ctx,
                bg,
                cc,
                st,
                dst,
                repl,
                chk>>

(***************************************************************************)
(* Bounds                                                                  *)
(***************************************************************************)
MaxTime == 2
AccessTTL == 1
RefreshTTL == 2

(***************************************************************************)
(* ---------------------------  ACCESS CONTROL  -------------------------- *)
(***************************************************************************)
Variants == {"A", "B"}

\* The user table seen by the authentication dependencies.  Variant A looks
\* users up by username, Variant B by id.
AccessUsers ==
  { [id |-> "u1", username |-> "alice", is_active |-> TRUE,  is_superuser |-> FALSE],
    [id |-> "u2", username |-> "bob",   is_active |-> FALSE, is_superuser |-> FALSE],
    [id |-> "u3", username |-> "root",  is_active |-> TRUE,  is_superuser |-> TRUE] }

SecretKey == "secret_key"
ForgedKey == "other_key"

NoTok == [sub |-> "", type |-> "", exp |-> 0, key |-> ""]
NoCred == [present |-> FALSE, tok |-> NoTok]
Cred(t) == [present |-> TRUE, tok |-> t]
Forge(t) == [t EXCEPT !.key = ForgedKey]

\* app/core/security.py: str(subject); the callers pass user.username.
Str(subject) == subject

create_access_token(subject, t) ==
  [sub |-> Str(subject), type |-> "access", exp |-> t + AccessTTL, key |-> SecretKey]

create_refresh_token(subject, t) ==
  [sub |-> Str(subject), type |-> "refresh", exp |-> t + RefreshTTL, key |-> SecretKey]

\* Variant B: generate_user_token -> create_access_token(data)
generate_user_token(user_id, t) ==
  [sub |-> user_id, type |-> "access", exp |-> t + AccessTTL, key |-> SecretKey]

\* jose.jwt.decode: the signature is checked first, then the exp claim.
jwt_decode_noexp(t, at) == t.key = SecretKey
jwt_decode(t, at) == t.key = SecretKey /\ ~(at > t.exp)

AuthenticationError == [ok |-> FALSE, sub |-> "", err |-> "AuthenticationError"]

\* Variant A verify_token(token, token_type)
verify_token_anytype(t, token_type, at) ==
  IF ~jwt_decode(t, at) THEN AuthenticationError
  ELSE [ok |-> TRUE, sub |-> t.sub, err |-> ""]
verify_token(t, token_type, at) ==
  IF ~jwt_decode(t, at) THEN AuthenticationError
  ELSE IF t.sub = "" THEN AuthenticationError
  ELSE IF t.type # token_type THEN AuthenticationError
  ELSE [ok |-> TRUE, sub |-> t.sub, err |-> ""]

\* Variant B verify_token(token): decode, then a second expiry test that
\* compares utcnow() with the local-time rendering of exp (tz = offset of the
\* server's local time from UTC).  Raises HTTPException(401) on failure.
TzOffsets == {-1, 0, 1}
verify_token_B(t, at, tz) ==
  IF ~jwt_decode(t, at) THEN [ok |-> FALSE, sub |-> ""]
  ELSE IF at > t.exp + tz THEN [ok |-> FALSE, sub |-> ""]
  ELSE [ok |-> TRUE, sub |-> t.sub]

ByUsername(name) == {u \in AccessUsers : u.username = name}
ById(id) == {u \in AccessUsers : u.id = id}

\* Outcome of an authentication dependency: either a status that ends the
\* request, or the user handed to the handler.
Reject(s) == [pass |-> FALSE, status |-> s, user |-> ""]
Pass(u) == [pass |-> TRUE, status |-> 0, user |-> u.username]

\* fastapi.security.HTTPBearer() with auto_error: a request without
\* credentials never reaches the dependency body; the status it answers
\* (bearer) is 403 or 401 depending on the FastAPI release.
BearerStatuses == {401, 403}

\* Variant A get_current_user
get_current_user_A(c, at, bearer) ==
  IF ~c.present THEN Reject(bearer)
  ELSE LET v == verify_token(c.tok, "access", at) IN
       IF ~v.ok THEN Reject(401)
       ELSE IF ByUsername(v.sub) = {} THEN Reject(401)
       ELSE LET u == CHOOSE x \in ByUsername(v.sub) : TRUE IN
            IF ~u.is_active THEN Reject(401) ELSE Pass(u)

\* Variant A get_current_active_user
get_current_active_user(c, at, bearer) ==
  LET r == get_current_user_A(c, at, bearer) IN
  IF ~r.pass THEN r
  ELSE LET u == CHOOSE x \in ByUsername(r.user) : TRUE IN
       IF ~u.is_active THEN Reject(400) ELSE r

\* Variant A get_current_superuser
get_current_superuser(c, at, bearer) ==
  LET r == get_current_user_A(c, at, bearer) IN
  IF ~r.pass THEN r
  ELSE LET u == CHOOSE x \in ByUsername(r.user) : TRUE IN
       IF ~u.is_superuser THEN Reject(403) ELSE r

\* Variant B get_current_user
get_current_user_B(c, at, bearer, tz) ==
  IF ~c.present THEN Reject(bearer)
  ELSE LET v == verify_token_B(c.tok, at, tz) IN
       IF ~v.ok THEN Reject(401)
       ELSE IF v.sub = "" THEN Reject(401)
       ELSE IF ById(v.sub) = {} THEN Reject(401)
       ELSE LET u == CHOOSE x \in ById(v.sub) : TRUE IN
            IF ~u.is_active THEN Reject(401) ELSE Pass(u)

\* Route tables.  group: which router the route belongs to; dep: the
\* authentication dependency the handler declares.
R(path, group, dep) == [path |-> path, group |-> group, dep |-> dep]

RoutesA ==
  { R("GET /healthz", "health", "none"),
    R("GET /readyz", "health", "none"),
    R("GET /metrics", "health", "none"),
    R("GET /", "root", "none"),
    R("POST /auth/register", "register", "none"),
    R("POST /auth/login", "login", "none"),
    R("POST /auth/refresh", "auth", "refresh_token"),
    R("GET /auth/me", "auth", "active"),
    R("POST /auth/logout", "auth", "user"),
    R("POST /chat/message", "chat", "active"),
    R("POST /chat/stream", "chat", "active"),
    R("GET /chat/models", "chat", "none"),
    R("GET /chat/usage", "chat", "active"),
    R("POST /conversations/", "conversations", "active"),
    R("GET /conversations/", "conversations", "active"),
    R("GET /conversations/{id}", "conversations", "active"),
    R("PUT /conversations/{id}", "conversations", "active"),
    R("DELETE /conversations/{id}", "conversations", "active"),
    R("POST /documents/upload", "documents", "active"),
    R("GET /documents/", "documents", "active"),
    R("GET /documents/search", "documents", "active"),
    R("GET /documents/{id}", "documents", "active"),
    R("PUT /documents/{id}", "documents", "active"),
    R("DELETE /documents/{id}", "documents", "active"),
    R("GET /documents/stats/summary", "documents", "active"),
    R("GET /messages/search", "messages", "active"),
    R("GET /messages/{id}", "messages", "active"),
    R("POST /profiles/", "profiles", "active"),
    R("GET /profiles/", "profiles", "active"),
    R("GET /profiles/{id}", "profiles", "active"),
    R("PUT /profiles/{id}", "profiles", "active"),
    R("DELETE /profiles/{id}", "profiles", "active"),
    R("POST /prompts/", "prompts", "active"),
    R("GET /prompts/", "prompts", "active"),
    R("GET /prompts/{id}", "prompts", "active"),
    R("PUT /prompts/{id}", "prompts", "active"),
    R("DELETE /prompts/{id}", "prompts", "active"),
    R("GET /analytics/summary", "analytics", "active"),
    R("GET /analytics/usage", "analytics", "active"),
    R("GET /analytics/performance", "analytics", "active"),
    R("GET /analytics/admin/summary", "analytics", "superuser") }

RoutesB ==
  { R("GET /health/", "health", "none"),
    R("GET /health/live", "health", "none"),
    R("GET /health/ready", "health", "none"),
    R("GET /", "root", "none"),
    R("POST /auth/register", "register", "none"),
    R("POST /auth/login", "login", "none"),
    R("GET /auth/me", "auth", "user"),
    R("POST /auth/refresh", "auth", "user"),
    R("POST /chat/", "chat", "user"),
    R("POST /chat/stream", "chat", "user"),
    R("GET /chat/conversations", "chat", "user"),
    R("GET /chat/conversations/{id}", "chat", "user"),
    R("PUT /chat/conversations/{id}", "chat", "user"),
    R("DELETE /chat/conversations/{id}", "chat", "user"),
    R("POST /documents/upload", "documents", "user"),
    R("GET /documents/", "documents", "user"),
    R("GET /documents/{id}", "documents", "user"),
    R("DELETE /documents/{id}", "documents", "user"),
    R("GET /documents/{id}/status", "documents", "user"),
    R("POST /documents/search", "documents", "user") }

Routes(v) == IF v = "A" THEN RoutesA ELSE RoutesB

\* The dependencies that authenticate the bearer token of the request.
AuthDeps == {"user", "active", "superuser"}

\* Variant A POST /auth/refresh: the refresh token is a request parameter
\* (p), the Authorization header is not read.
refresh_token_A(p, at) ==
  IF ~p.present THEN Reject(422)
  ELSE LET v == verify_token(p.tok, "refresh", at) IN
       IF ~v.ok THEN Reject(401)
       ELSE IF ByUsername(v.sub) = {} THEN Reject(401)
       ELSE LET u == CHOOSE x \in ByUsername(v.sub) : TRUE IN
            IF ~u.is_active THEN Reject(401) ELSE Pass(u)

\* What the routing layer does with a request before the handler body.
Authenticate(v, r, c, at, bearer, tz) ==
  IF r.dep = "none" THEN [pass |-> TRUE, status |-> 0, user |-> ""]
  ELSE IF v = "B" THEN get_current_user_B(c, at, bearer, tz)
  ELSE IF r.dep = "user" THEN get_current_user_A(c, at, bearer)
  ELSE IF r.dep = "active" THEN get_current_active_user(c, at, bearer)
  ELSE get_current_superuser(c, at, bearer)

NoResp == [done |-> FALSE, variant |-> "", route |-> R("", "", ""), cred |-> NoCred,
           param |-> NoCred, at |-> 0, status |-> 0, handlerRan |-> FALSE]
NoVres == [done |-> FALSE, tok |-> NoTok, expected |-> "", at |-> 0,
           out |-> AuthenticationError]

\* resp holds the answer to the HTTP request being answered and vres the
\* result of a direct verify_token call, until the client has read it.
\* Credentials a client can present: none, the token it was issued, or that
\* token re-signed with a key that is not the server's.
Presentable == {NoCred} \cup (IF tok = NoTok THEN {} ELSE {Cred(tok), Cred(Forge(tok))})

Quiet == ~resp.done /\ ~vres.done

AccessFrame == UNCHANGED <<users, profiles, reg, conversations, messages, turn,
                           documents, upl, fetched,
  probe,
  login,
  sess,
  cli,
  ctx,
  bg,
  cc,
  st,
  dst,
  repl,
  chk>>

\* The client has read the answer.
Deliver ==
  /\ AccessFrame
  /\ ~Quiet
  /\ resp' = NoResp /\ vres' = NoVres
  /\ UNCHANGED <<now, tok>>

Tick ==
  /\ AccessFrame
  /\ Quiet
  /\ now < MaxTime
  /\ now' = now + 1
  /\ resp' = NoResp /\ vres' = NoVres
  /\ UNCHANGED tok

\* Variant A login issues create_access_token / create_refresh_token.
CreateTokenA ==
  /\ AccessFrame
  /\ Quiet
  /\ \E s \in {"alice", "bob", "root", "ghost"}, ty \in {"access", "refresh"} :
       tok' = IF ty = "access" THEN create_access_token(s, now)
              ELSE create_refresh_token(s, now)
  /\ resp' = NoResp /\ vres' = NoVres
  /\ UNCHANGED now

\* Variant B login / refresh issue generate_user_token.
CreateTokenB ==
  /\ AccessFrame
  /\ Quiet
  /\ \E id \in {"u1", "u2", "u3", "u9"} : tok' = generate_user_token(id, now)
  /\ resp' = NoResp /\ vres' = NoVres
  /\ UNCHANGED now

\* verify_token applied to a presented token (Variant A).
VerifyA ==
  /\ AccessFrame
  /\ Quiet
  /\ tok # NoTok
  /\ \E c \in Presentable \ {NoCred}, e \in {"access", "refresh"} :
       vres' = [done |-> TRUE, tok |-> c.tok, expected |-> e, at |-> now,
                out |-> verify_token(c.tok, e, now)]
  /\ resp' = NoResp
  /\ UNCHANGED <<now, tok>>

\* One HTTP request to a route other than Variant A's /auth/refresh.
Request ==
  /\ AccessFrame
  /\ Quiet
  /\ \E v \in Variants, c \in Presentable :
     \E r \in {x \in Routes(v) : x.dep # "refresh_token"},
        bearer \in (IF c.present THEN {401} ELSE BearerStatuses),
        tz \in (IF v = "B" /\ c.present THEN TzOffsets ELSE {0}) :
       LET a == Authenticate(v, r, c, now, bearer, tz) IN
       resp' = [done |-> TRUE, variant |-> v, route |-> r, cred |-> c,
                param |-> NoCred, at |-> now,
                status |-> IF a.pass THEN 200 ELSE a.status,
                handlerRan |-> a.pass]
  /\ vres' = NoVres
  /\ UNCHANGED <<now, tok>>

\* Variant A POST /auth/refresh with request parameter p; on success the
\* client holds the new access token.
RefreshA ==
  /\ AccessFrame
  /\ Quiet
  /\ \E c \in {NoCred}, p \in Presentable :
       LET r == R("POST /auth/refresh", "auth", "refresh_token")
           a == refresh_token_A(p, now) IN
       /\ resp' = [done |-> TRUE, variant |-> "A", route |-> r, cred |-> c,
                   param |-> p, at |-> now,
                   status |-> IF a.pass THEN 200 ELSE a.status,
                   handlerRan |-> a.pass]
       /\ tok' = IF a.pass THEN create_access_token(a.user, now) ELSE tok
  /\ vres' = NoVres
  /\ UNCHANGED now

InitAccess ==
  /\ now = 0 /\ tok = NoTok /\ resp = NoResp /\ vres = NoVres
  /\ chk = <<>>
  /\ repl = <<>>
  /\ dst = <<>>
  /\ st = <<>>
  /\ cc = <<>>
  /\ bg = <<>>
  /\ ctx = <<>>
  /\ cli = <<>>
  /\ sess = <<>>
  /\ login = <<>>
  /\ probe = <<>>
  /\ users = <<>> /\ profiles = <<>> /\ reg = <<>>
  /\ conversations = <<>> /\ messages = <<>> /\ turn = <<>>
  /\ documents = <<>> /\ upl = <<>> /\ fetched = <<>>

NextAccess ==
  \/ Deliver
  \/ Tick
  \/ CreateTokenA
  \/ CreateTokenB
  \/ VerifyA
  \/ Request
  \/ RefreshA

\* Routes the specification text exempts from authentication.
ExemptGroups == {"health", "root", "register", "login"}

Expired(t, at) == at > t.exp
BadSignature(t) == t.key # SecretKey

OtherType(ty) == IF ty = "access" THEN "refresh" ELSE "access"

\* C4: Variant A: a token created with type T verifies against expected type
\* T and returns exactly its subject, and verifying it against the other
\* type fails with an authentication error (the token being within its
\* lifetime); the refresh endpoint accepts only refresh tokens and the
\* protected routes accept only access tokens.
C4_TokenRoundTrip ==
  /\ (vres.done /\ ~BadSignature(vres.tok) /\ ~Expired(vres.tok, vres.at)) =>
       /\ (vres.expected = vres.tok.type =>
              (vres.out.ok /\ vres.out.sub = vres.tok.sub))
       /\ (vres.expected = OtherType(vres.tok.type) =>
              (~vres.out.ok /\ vres.out.err = "AuthenticationError"))
  /\ (resp.done /\ resp.variant = "A" /\ resp.handlerRan) =>
       /\ (resp.route.dep = "refresh_token" => resp.param.tok.type = "refresh")
       /\ (resp.route.dep \in AuthDeps => resp.cred.tok.type = "access")

C4_Witness ==
  /\ vres.done /\ vres.tok.type = "refresh" /\ vres.expected = "refresh"
  /\ vres.out.ok /\ vres.out.sub = "alice"

SpecAccess == InitAccess /\ [][NextAccess]_vars


(***************************************************************************)
(* -----------------------  REGISTRATION (Variant A)  -------------------- *)
(* users and profiles are the tables (row id = position); reg[i] is the    *)
(* i-th POST /auth/register request, which yields to other requests at     *)
(* every awaited database call.                                            *)
(***************************************************************************)
MaxReg == 2
RegIds == 1..MaxReg
Usernames == {"alice", "bob"}
Emails == {"a@x.org", "b@x.org"}

RegIdle == [pc |-> "idle", username |-> "", email |-> "", dup |-> FALSE,
            status |-> 0, uid |-> 0]

\* AuthService.get_user_by_username / get_user_by_email: ids of matching rows
get_user_by_username(us, name) == {k \in 1..Len(us) : us[k].username = name}
get_user_by_email_none(us, email) == {}
get_user_by_email(us, email) == {k \in 1..Len(us) : us[k].email = email}

\* unique=True on User.username and User.email
UniqueViolation(us, name, email) ==
  \E k \in 1..Len(us) : us[k].username = name \/ us[k].email = email

RegFrame == UNCHANGED <<now, tok, resp, vres, conversations, messages, turn,
                        documents, upl, fetched,
  probe,
  login,
  sess,
  cli,
  ctx,
  bg,
  cc,
  st,
  dst,
  repl,
  chk>>

\* The request arrives with its body (UserCreate).  dup records whether the
\* username or the email is already present among the users at that moment.
RegStart(i) ==
  /\ RegFrame
  /\ reg[i].pc = "idle"
  /\ \E un \in Usernames, em \in Emails :
       reg' = [reg EXCEPT ![i] =
                 [pc |-> "check_username", username |-> un, email |-> em,
                  dup |-> (\E k \in 1..Len(users) :
                             users[k].username = un \/ users[k].email = em),
                  status |-> 0, uid |-> 0]]
  /\ UNCHANGED <<users, profiles>>

\* create_user: existing_user = await get_user_by_username(...)
\* ConflictError is mapped to 409 by the register route.
RegCheckUsername(i) ==
  /\ RegFrame
  /\ reg[i].pc = "check_username"
  /\ reg' = [reg EXCEPT ![i] =
       IF get_user_by_username(users, reg[i].username) # {}
       THEN [@ EXCEPT !.pc = "done", !.status = 409]
       ELSE [@ EXCEPT !.pc = "check_email"]]
  /\ UNCHANGED <<users, profiles>>

\* create_user: existing_email = await get_user_by_email(...)
RegCheckEmail(i) ==
  /\ RegFrame
  /\ reg[i].pc = "check_email"
  /\ reg' = [reg EXCEPT ![i] =
       IF get_user_by_email(users, reg[i].email) # {}
       THEN [@ EXCEPT !.pc = "done", !.status = 409]
       ELSE [@ EXCEPT !.pc = "commit_user"]]
  /\ UNCHANGED <<users, profiles>>

\* create_user: db.add(user); await db.commit().  A unique-constraint
\* violation raises IntegrityError, which the route does not catch (500).
RegCommitUser(i) ==
  /\ RegFrame
  /\ reg[i].pc = "commit_user"
  /\ IF UniqueViolation(users, reg[i].username, reg[i].email)
     THEN /\ reg' = [reg EXCEPT ![i] = [@ EXCEPT !.pc = "done", !.status = 500]]
          /\ UNCHANGED users
     ELSE /\ users' = Append(users, [username |-> reg[i].username,
                                     email |-> reg[i].email, is_active |-> TRUE])
          /\ reg' = [reg EXCEPT ![i] =
                       [@ EXCEPT !.pc = "create_profile", !.uid = Len(users) + 1]]
  /\ UNCHANGED profiles

\* _create_default_profile: db.add(profile); await db.commit(); then 201.
RegCreateProfile(i) ==
  /\ RegFrame
  /\ reg[i].pc = "create_profile"
  /\ profiles' = Append(profiles, [user_id |-> reg[i].uid, name |-> "Default",
                                   is_default |-> TRUE, is_active |-> TRUE,
                                   usage_count |-> 0, total_tokens_used |-> 0])
  /\ reg' = [reg EXCEPT ![i] = [@ EXCEPT !.pc = "done", !.status = 201]]
  /\ UNCHANGED users

InitRegister ==
  /\ users = <<>> /\ profiles = <<>> /\ reg = [i \in RegIds |-> RegIdle]
  /\ now = 0 /\ tok = NoTok /\ resp = NoResp /\ vres = NoVres
  /\ chk = <<>>
  /\ repl = <<>>
  /\ dst = <<>>
  /\ st = <<>>
  /\ cc = <<>>
  /\ bg = <<>>
  /\ ctx = <<>>
  /\ cli = <<>>
  /\ sess = <<>>
  /\ login = <<>>
  /\ probe = <<>>
  /\ conversations = <<>> /\ messages = <<>> /\ turn = <<>>
  /\ documents = <<>> /\ upl = <<>> /\ fetched = <<>>

NextRegister ==
  \/ \E i \in RegIds : RegStart(i)
  \/ \E i \in RegIds : RegCheckUsername(i)
  \/ \E i \in RegIds : RegCheckEmail(i)
  \/ \E i \in RegIds : RegCommitUser(i)
  \/ \E i \in RegIds : RegCreateProfile(i)

SpecRegister == InitRegister /\ [][NextRegister]_vars

DefaultProfilesOf(u) ==
  {k \in 1..Len(profiles) : profiles[k].user_id = u /\ profiles[k].is_default}

\* C7: Variant A: a registration whose username or email is already present
\* among the users fails with 409 and creates no user row; the users table
\* never holds two rows with the same username or the same email.
C7_DuplicateRegistrationConflict ==
  /\ \A i \in RegIds :
       (reg[i].pc = "done" /\ reg[i].dup) => (reg[i].status = 409 /\ reg[i].uid = 0)
  /\ \A i \in RegIds : reg[i].dup => reg[i].uid = 0
  /\ \A j, k \in 1..Len(users) :
       (users[j].username = users[k].username \/ users[j].email = users[k].email)
         => j = k

C7_Witness ==
  \E i \in RegIds :
    /\ reg[i].pc = "done" /\ reg[i].dup /\ reg[i].status = 409
    /\ \A k \in 1..Len(users) : users[k].username # reg[i].username
    /\ \E k \in 1..Len(users) : users[k].email = reg[i].email

\* C8 (as stated): Variant A: in every state reached after a registration
\* has created a user row, that user has exactly one Profile row marked
\* default.
C8_ExactlyOneDefaultProfile ==
  \A u \in 1..Len(users) : Cardinality(DefaultProfilesOf(u)) = 1


(***************************************************************************)
(* ------------------------------  CHAT TURNS  --------------------------- *)
(* conversations[v] and messages[v] are the tables of variant v (row id =  *)
(* position).  turn[i] is the i-th chat request; it yields to the other    *)
(* requests at every awaited call.                                         *)
(***************************************************************************)
MaxTurns == 2
MaxChunks == 2
TurnIds == 1..MaxTurns
ChatUsers == {1, 2}
TokenCounts == {1, 2}
Modes == {"single", "stream"}
ProfileIds == {0, 1}

TurnIdle == [pc |-> "idle", v |-> "", mode |-> "", user |-> 0, req_conv |-> 0,
             profile_id |-> 0, conv |-> 0, profile |-> 0, status |-> 0,
             out |-> <<>>, tc |-> 0, chunks |-> <<>>, pending |-> <<>>, ai |-> 0,
             foreign |-> FALSE, mc0 |-> 0, tt0 |-> 0, exc |-> "",
             retrieval |-> "", sources |-> 0]

ChatFrame == UNCHANGED <<now, tok, resp, vres, users, reg, documents, upl, fetched,
  probe,
  login,
  sess,
  cli,
  ctx,
  bg,
  cc,
  st,
  dst,
  repl,
  chk>>

Msg(c, role, content, tc, i) ==
  [conversation_id |-> c, role |-> role, content |-> content,
   token_count |-> tc, turn |-> i]

\* Variant A ChatService.get_conversation: rows with this id owned by user
get_conversation_anyowner(cs, id, user) == {k \in 1..Len(cs) : k = id}
get_conversation(cs, id, user) ==
  {k \in 1..Len(cs) : k = id /\ cs[k].user_id = user}

\* Variant B chat / chat_stream: select(Conversation).where(id & user_id)
select_conversation_B(cs, id, user) ==
  {k \in 1..Len(cs) : k = id /\ cs[k].user_id = user}

\* Variant A ChatService._get_user_profile
get_user_profile(ps, user, profile_id) ==
  IF profile_id # 0
  THEN {k \in 1..Len(ps) : k = profile_id /\ ps[k].user_id = user /\ ps[k].is_active}
  ELSE {k \in 1..Len(ps) : ps[k].user_id = user /\ ps[k].is_default /\ ps[k].is_active}

\* Variant A ChatService._save_message: db.add(message); await db.commit()
save_message_lost(ms, m) == ms
save_message(ms, m) == Append(ms, m)

\* Variant A ChatService._update_conversation_stats: one UPDATE statement
update_conversation_stats(cs, id, token_count) ==
  [cs EXCEPT ![id].message_count = @ + 1, ![id].total_tokens = @ + token_count]

\* Variant A ChatService._update_profile_usage: one UPDATE statement
update_profile_usage(ps, id, token_count) ==
  [ps EXCEPT ![id].usage_count = @ + 1, ![id].total_tokens_used = @ + token_count]

\* How Variant A ends a turn that raised: send_message maps NotFoundError and
\* ValidationError to 400 and anything else to 500; generate_stream turns
\* the exception into an error chunk of the (already started) 200 response.
FailA_done(t, kind) ==
  IF t.mode = "single"
  THEN [t EXCEPT !.pc = "done", !.exc = kind,
                 !.status = IF kind \in {"NotFoundError", "ValidationError"}
                            THEN 400 ELSE 500]
  ELSE [t EXCEPT !.pc = "done", !.status = 200, !.exc = kind,
                 !.out = @ \o <<"error", "[DONE]">>]
FailA(t, kind) ==
  IF t.mode = "single"
  THEN [t EXCEPT !.pc = "done", !.exc = kind,
                 !.status = IF kind \in {"NotFoundError", "ValidationError"}
                            THEN 400 ELSE 500]
  ELSE [t EXCEPT !.pc = "done", !.status = 200, !.exc = kind,
                 !.out = Append(@, "error")]

\* Variant B generate_stream, `except Exception as e`: the exception is
\* logged and one error payload is written; the generator then ends.
FailBS_propagates(t, kind) ==
  [t EXCEPT !.pc = "done", !.status = 200, !.exc = kind,
            !.out = Append(@, "abort")]
FailBS(t, kind) ==
  [t EXCEPT !.pc = "done", !.status = 200, !.exc = kind,
            !.out = Append(@, "error")]

\* The request names a conversation that is not the requester's (history
\* field of the turn, recorded when the request arrives).
NotOwned(cs, rc, u) == rc # 0 /\ ~(rc <= Len(cs) /\ cs[rc].user_id = u)

\* The locals of a request are gone once its response has been delivered:
\* of an answered turn only the deployment it ran against is kept.
Closed(ts) ==
  [j \in TurnIds |->
     IF ts[j].pc = "done" THEN [TurnIdle EXCEPT !.pc = "closed", !.v = ts[j].v]
     ELSE ts[j]]

\* The request arrives; SpecChat runs the turns one after another, all of
\* them against the same application (a deployment runs one variant).  The
\* fields a rejected request never reads are left at their defaults, and an
\* explicit profile id is explored on requests that open a conversation.
\* Variant A validates the message text first: a blank
\* message is ValidationError -> 400 in send_message, and in stream_message an
\* HTTPException(400) that the surrounding `except Exception` turns into 500.
TurnStart(i) ==
  /\ ChatFrame
  /\ turn[i].pc = "idle"
  /\ \A j \in TurnIds : j < i => turn[j].pc \in {"done", "closed"}
  /\ \E v \in Variants, mode \in Modes, u \in ChatUsers, pid \in ProfileIds,
        blank \in BOOLEAN :
     \E rc \in 0..(Len(conversations[v]) + 1) :
       /\ \A j \in TurnIds : turn[j].pc # "idle" => turn[j].v = v
       /\ (v = "B") => (pid = 0 /\ ~blank)
       /\ blank => (rc = 0 /\ pid = 0)
       /\ (rc # 0) => (pid = 0)
       /\ turn' = [Closed(turn) EXCEPT ![i] =
            IF blank
            THEN [TurnIdle EXCEPT !.pc = "done", !.v = v, !.mode = mode, !.user = u,
                                  !.req_conv = rc, !.profile_id = pid,
                                  !.exc = IF mode = "single" THEN "ValidationError"
                                          ELSE "HTTPException",
                                  !.status = IF mode = "single" THEN 400 ELSE 500]
            ELSE [TurnIdle EXCEPT !.pc = "conv", !.v = v, !.mode = mode, !.user = u,
                                  !.req_conv = rc, !.profile_id = pid,
                                  !.foreign = NotOwned(conversations[v], rc, u)]]
  /\ UNCHANGED <<conversations, messages, profiles>>

\* Variant A: get or create the conversation
\* (send_message / stream_message, "Get or create conversation").
A_Conversation(i) ==
  /\ ChatFrame
  /\ turn[i].pc = "conv" /\ turn[i].v = "A"
  /\ IF turn[i].req_conv # 0
     THEN /\ turn' = [turn EXCEPT ![i] =
                IF get_conversation(conversations.A, turn[i].req_conv, turn[i].user) = {}
                THEN FailA(@, "NotFoundError")
                ELSE [@ EXCEPT !.pc = "profile", !.conv = turn[i].req_conv,
                               !.mc0 = conversations.A[turn[i].req_conv].message_count,
                               !.tt0 = conversations.A[turn[i].req_conv].total_tokens]]
          /\ UNCHANGED conversations
     ELSE /\ conversations' = [conversations EXCEPT !.A =
                Append(@, [user_id |-> turn[i].user, title |-> "message",
                           message_count |-> 0, total_tokens |-> 0])]
          /\ turn' = [turn EXCEPT ![i] =
                [@ EXCEPT !.pc = "profile", !.conv = Len(conversations.A) + 1]]
  /\ UNCHANGED <<messages, profiles>>

\* Variant A: profile = await self._get_user_profile(user, profile_id)
A_Profile(i) ==
  /\ ChatFrame
  /\ turn[i].pc = "profile"
  /\ LET ps == get_user_profile(profiles, turn[i].user, turn[i].profile_id) IN
     turn' = [turn EXCEPT ![i] =
       IF ps = {} THEN FailA(@, "NotFoundError")
       ELSE [@ EXCEPT !.pc = "save_user", !.profile = CHOOSE k \in ps : TRUE]]
  /\ UNCHANGED <<conversations, messages, profiles>>

\* Variant A: user_message = await self._save_message(role="user")
A_SaveUserMessage(i) ==
  /\ ChatFrame
  /\ turn[i].pc = "save_user"
  /\ messages' = [messages EXCEPT !.A =
        save_message(@, Msg(turn[i].conv, "user", <<"q">>, 0, i))]
  /\ turn' = [turn EXCEPT ![i] = [@ EXCEPT !.pc = "context"]]
  /\ UNCHANGED <<conversations, profiles>>

\* What the retrieval of a turn meets: documents are found, the embedding
\* of the query raises, or the similarity search raises.
RetrievalOutcomes == {"found", "EmbeddingError", "VectorStoreError"}

\* Variant A _retrieve_relevant_documents: generate_embedding, then
\* search_documents; `except Exception` logs a warning and returns [].
retrieve_relevant_documents_raises(r) ==
  [exc |-> IF r = "found" THEN "" ELSE r, sources |-> IF r = "found" THEN 1 ELSE 0]
retrieve_relevant_documents(r) ==
  [exc |-> "", sources |-> IF r = "found" THEN 1 ELSE 0]

\* Variant B get_relevant_context: search_documents re-raises, and
\* get_relevant_context logs a warning and returns "".
get_relevant_context(r) ==
  [exc |-> "", sources |-> IF r = "found" THEN 1 ELSE 0]

\* Variant A: _build_conversation_context, retrieval, then the LLM call is
\* issued with the retrieved sources (none when the retrieval failed).
A_BeginGeneration(i) ==
  /\ ChatFrame
  /\ turn[i].pc = "context"
  /\ \E r \in RetrievalOutcomes :
       LET res == retrieve_relevant_documents(r) IN
       turn' = [turn EXCEPT ![i] =
         IF res.exc # ""
         THEN FailA([@ EXCEPT !.retrieval = r], res.exc)
         ELSE [@ EXCEPT !.pc = "generate", !.retrieval = r,
                        !.sources = res.sources]]
  /\ UNCHANGED <<conversations, messages, profiles>>

\* Variant A send_message: llm_service.generate_response returns.
A_Generated(i) ==
  /\ ChatFrame
  /\ turn[i].pc = "generate" /\ turn[i].v = "A" /\ turn[i].mode = "single"
  /\ \E n \in TokenCounts :
       turn' = [turn EXCEPT ![i] = [@ EXCEPT !.pc = "save_ai", !.tc = n,
                                             !.chunks = <<"r">>]]
  /\ UNCHANGED <<conversations, messages, profiles>>

\* llm_service.generate_response / stream_response raises LLMError.
A_GenerationFails(i) ==
  /\ ChatFrame
  /\ turn[i].pc = "generate" /\ turn[i].v = "A"
  /\ turn' = [turn EXCEPT ![i] = FailA(@, "LLMError")]
  /\ UNCHANGED <<conversations, messages, profiles>>

\* Variant A stream_message: one chunk of llm_service.stream_response;
\* full_response += chunk; token_count += 1; yield StreamingChatResponse.
A_StreamChunk(i) ==
  /\ ChatFrame
  /\ turn[i].pc = "generate" /\ turn[i].v = "A" /\ turn[i].mode = "stream"
  /\ Len(turn[i].chunks) < MaxChunks
  /\ turn' = [turn EXCEPT ![i] = [@ EXCEPT !.chunks = Append(@, "t"),
                                           !.tc = @ + 1,
                                           !.out = Append(@, "chunk")]]
  /\ UNCHANGED <<conversations, messages, profiles>>

\* Variant A stream_message: the async for loop ends.
A_StreamEnds(i) ==
  /\ ChatFrame
  /\ turn[i].pc = "generate" /\ turn[i].v = "A" /\ turn[i].mode = "stream"
  /\ turn' = [turn EXCEPT ![i] = [@ EXCEPT !.pc = "save_ai"]]
  /\ UNCHANGED <<conversations, messages, profiles>>

\* Variant A: ai_message = await self._save_message(role="assistant")
A_SaveAssistantMessage(i) ==
  /\ ChatFrame
  /\ turn[i].pc = "save_ai"
  /\ messages' = [messages EXCEPT !.A =
        save_message(@, Msg(turn[i].conv, "assistant", turn[i].chunks, turn[i].tc, i))]
  /\ turn' = [turn EXCEPT ![i] = [@ EXCEPT !.pc = "stats", !.ai = Len(messages.A) + 1]]
  /\ UNCHANGED <<conversations, profiles>>

\* Variant A: await self._update_conversation_stats(conversation, token_count)
A_UpdateConversationStats(i) ==
  /\ ChatFrame
  /\ turn[i].pc = "stats"
  /\ conversations' = [conversations EXCEPT !.A =
        update_conversation_stats(@, turn[i].conv, turn[i].tc)]
  /\ turn' = [turn EXCEPT ![i] = [@ EXCEPT !.pc = "usage"]]
  /\ UNCHANGED <<messages, profiles>>

\* Variant A: _save_message raises (the flush or the commit fails); what
\* was committed before stays, and the exception leaves send_message /
\* stream_message.
A_PersistenceFails(i) ==
  /\ ChatFrame
  /\ turn[i].pc \in {"save_user", "save_ai"}
  /\ turn' = [turn EXCEPT ![i] = FailA(@, "SQLAlchemyError")]
  /\ UNCHANGED <<conversations, messages, profiles>>

\* Variant A: await self._update_profile_usage(profile, token_count); then
\* the response is returned (single) or the final chunk and the [DONE] line
\* are written (stream).
A_UpdateProfileUsage(i) ==
  /\ ChatFrame
  /\ turn[i].pc = "usage"
  /\ profiles' = update_profile_usage(profiles, turn[i].profile, turn[i].tc)
  /\ turn' = [turn EXCEPT ![i] =
       [@ EXCEPT !.pc = "done", !.status = 200,
                 !.out = IF turn[i].mode = "stream"
                         THEN @ \o <<"final", "[DONE]">> ELSE @]]
  /\ UNCHANGED <<conversations, messages>>

\* Variant B chat: get or create the conversation; an unknown or foreign id
\* is HTTPException(404).
B_Conversation(i) ==
  /\ ChatFrame
  /\ turn[i].pc = "conv" /\ turn[i].v = "B" /\ turn[i].mode = "single"
  /\ IF turn[i].req_conv # 0
     THEN /\ turn' = [turn EXCEPT ![i] =
                IF select_conversation_B(conversations.B, turn[i].req_conv, turn[i].user) = {}
                THEN [@ EXCEPT !.pc = "done", !.status = 404]
                ELSE [@ EXCEPT !.pc = "history", !.conv = turn[i].req_conv]]
          /\ UNCHANGED conversations
     ELSE /\ conversations' = [conversations EXCEPT !.B =
                Append(@, [user_id |-> turn[i].user, title |-> "New Conversation"])]
          /\ turn' = [turn EXCEPT ![i] =
                [@ EXCEPT !.pc = "history", !.conv = Len(conversations.B) + 1]]
  /\ UNCHANGED <<messages, profiles>>

\* Variant B chat: history query, get_relevant_context, then
\* db_session.add(user_message) (pending in the session, not flushed) and the
\* LLM call is issued.
B_BeginGeneration(i) ==
  /\ ChatFrame
  /\ turn[i].pc = "history" /\ turn[i].mode = "single"
  /\ \E r \in RetrievalOutcomes :
       LET res == get_relevant_context(r) IN
       turn' = [turn EXCEPT ![i] =
         IF res.exc # ""
         THEN [@ EXCEPT !.pc = "done", !.status = 500, !.exc = res.exc,
                        !.retrieval = r]
         ELSE [@ EXCEPT !.pc = "generate", !.retrieval = r,
                        !.sources = res.sources,
                        !.pending = <<Msg(turn[i].conv, "user", <<"q">>, 0, i)>>]]
  /\ UNCHANGED <<conversations, messages, profiles>>

\* Variant B chat: generate_response returned; add(assistant_message),
\* generate_title for a still untitled conversation (its failure is only
\* logged), commit, 200.
B_GeneratedAndCommitted(i) ==
  /\ ChatFrame
  /\ turn[i].pc = "generate" /\ turn[i].v = "B" /\ turn[i].mode = "single"
  /\ \E titled \in BOOLEAN :
       conversations' = [conversations EXCEPT !.B[turn[i].conv].title =
          IF @ = "New Conversation" /\ titled THEN "generated" ELSE @]
  /\ messages' = [messages EXCEPT !.B =
        @ \o turn[i].pending \o <<Msg(turn[i].conv, "assistant", <<"r">>, 0, i)>>]
  /\ turn' = [turn EXCEPT ![i] =
       [@ EXCEPT !.pc = "done", !.status = 200, !.pending = <<>>,
                 !.ai = Len(messages.B) + 2]]
  /\ UNCHANGED profiles

\* Variant B chat: generate_response raised; rollback, 500.
B_GenerationFails(i) ==
  /\ ChatFrame
  /\ turn[i].pc = "generate" /\ turn[i].v = "B" /\ turn[i].mode = "single"
  /\ turn' = [turn EXCEPT ![i] = [@ EXCEPT !.pc = "done", !.status = 500,
                                           !.exc = "LLMError", !.pending = <<>>]]
  /\ UNCHANGED <<conversations, messages, profiles>>

\* Variant B chat_stream.generate_stream: get or create the conversation; an
\* unknown or foreign id yields one error payload and ends the stream.
BS_Conversation(i) ==
  /\ ChatFrame
  /\ turn[i].pc = "conv" /\ turn[i].v = "B" /\ turn[i].mode = "stream"
  /\ IF turn[i].req_conv # 0
     THEN /\ turn' = [turn EXCEPT ![i] =
                IF select_conversation_B(conversations.B, turn[i].req_conv, turn[i].user) = {}
                THEN [@ EXCEPT !.pc = "done", !.status = 200, !.out = Append(@, "error")]
                ELSE [@ EXCEPT !.pc = "history", !.conv = turn[i].req_conv]]
          /\ UNCHANGED conversations
     ELSE /\ conversations' = [conversations EXCEPT !.B =
                Append(@, [user_id |-> turn[i].user, title |-> "New Conversation"])]
          /\ turn' = [turn EXCEPT ![i] =
                [@ EXCEPT !.pc = "history", !.conv = Len(conversations.B) + 1]]
  /\ UNCHANGED <<messages, profiles>>

\* Variant B chat_stream: history, context, add(user_message),
\* add(assistant placeholder ""), commit; then the LLM stream is opened.
BS_BeginGeneration(i) ==
  /\ ChatFrame
  /\ turn[i].pc = "history" /\ turn[i].mode = "stream"
  /\ \E r \in RetrievalOutcomes :
       LET res == get_relevant_context(r) IN
       IF res.exc # ""
       THEN /\ turn' = [turn EXCEPT ![i] = FailBS([@ EXCEPT !.retrieval = r], res.exc)]
            /\ UNCHANGED messages
       ELSE /\ messages' = [messages EXCEPT !.B =
                  @ \o <<Msg(turn[i].conv, "user", <<"q">>, 0, i),
                         Msg(turn[i].conv, "assistant", <<>>, 0, i)>>]
            /\ turn' = [turn EXCEPT ![i] =
                  [@ EXCEPT !.pc = "generate", !.retrieval = r,
                            !.sources = res.sources, !.ai = Len(messages.B) + 2]]
  /\ UNCHANGED <<conversations, profiles>>

\* Variant B chat_stream: one token; full_response += token; yield chunk.
BS_StreamChunk(i) ==
  /\ ChatFrame
  /\ turn[i].pc = "generate" /\ turn[i].v = "B" /\ turn[i].mode = "stream"
  /\ Len(turn[i].chunks) < MaxChunks
  /\ turn' = [turn EXCEPT ![i] = [@ EXCEPT !.chunks = Append(@, "t"),
                                           !.out = Append(@, "chunk")]]
  /\ UNCHANGED <<conversations, messages, profiles>>

\* Variant B chat_stream: the loop ends; assistant_message.content =
\* full_response; commit; final chunk.
BS_StreamEnds(i) ==
  /\ ChatFrame
  /\ turn[i].pc = "generate" /\ turn[i].v = "B" /\ turn[i].mode = "stream"
  /\ messages' = [messages EXCEPT !.B[turn[i].ai].content = turn[i].chunks]
  /\ turn' = [turn EXCEPT ![i] = [@ EXCEPT !.pc = "done", !.status = 200,
                                           !.out = Append(@, "final")]]
  /\ UNCHANGED <<conversations, profiles>>

\* Variant B chat_stream: stream_response raised; error payload.
BS_GenerationFails(i) ==
  /\ ChatFrame
  /\ turn[i].pc = "generate" /\ turn[i].v = "B" /\ turn[i].mode = "stream"
  /\ turn' = [turn EXCEPT ![i] = FailBS(@, "LLMError")]
  /\ UNCHANGED <<conversations, messages, profiles>>

\* Variant B chat_stream: a db_session.commit() raises, either the commit of
\* the user message and the placeholder (nothing of the turn is stored) or
\* the commit of the full response (the placeholder keeps its empty text).
BS_CommitFails(i) ==
  /\ ChatFrame
  /\ turn[i].pc \in {"history", "generate"}
  /\ turn[i].v = "B" /\ turn[i].mode = "stream"
  /\ turn' = [turn EXCEPT ![i] = FailBS(@, "SQLAlchemyError")]
  /\ UNCHANGED <<conversations, messages, profiles>>

\* Each variant starts with one empty conversation of user 1, and the two
\* users of Variant A have their default profile.
InitChat ==
  /\ conversations =
       [A |-> <<[user_id |-> 1, title |-> "message", message_count |-> 0,
                 total_tokens |-> 0]>>,
        B |-> <<[user_id |-> 1, title |-> "New Conversation"]>>]
  /\ messages = [A |-> <<>>, B |-> <<>>]
  /\ turn = [i \in TurnIds |-> TurnIdle]
  /\ profiles = <<[user_id |-> 1, name |-> "Default", is_default |-> TRUE,
                   is_active |-> TRUE, usage_count |-> 0, total_tokens_used |-> 0],
                  [user_id |-> 2, name |-> "Default", is_default |-> TRUE,
                   is_active |-> TRUE, usage_count |-> 0, total_tokens_used |-> 0]>>
  /\ users = <<>> /\ reg = <<>>
  /\ now = 0 /\ tok = NoTok /\ resp = NoResp /\ vres = NoVres
  /\ chk = <<>>
  /\ repl = <<>>
  /\ dst = <<>>
  /\ st = <<>>
  /\ cc = <<>>
  /\ bg = <<>>
  /\ ctx = <<>>
  /\ cli = <<>>
  /\ sess = <<>>
  /\ login = <<>>
  /\ probe = <<>>
  /\ documents = <<>> /\ upl = <<>> /\ fetched = <<>>

NextChat ==
  \/ \E i \in TurnIds : TurnStart(i)
  \/ \E i \in TurnIds : A_Conversation(i)
  \/ \E i \in TurnIds : A_Profile(i)
  \/ \E i \in TurnIds : A_SaveUserMessage(i)
  \/ \E i \in TurnIds : A_BeginGeneration(i)
  \/ \E i \in TurnIds : A_Generated(i)
  \/ \E i \in TurnIds : A_GenerationFails(i)
  \/ \E i \in TurnIds : A_StreamChunk(i)
  \/ \E i \in TurnIds : A_StreamEnds(i)
  \/ \E i \in TurnIds : A_SaveAssistantMessage(i)
  \/ \E i \in TurnIds : A_UpdateConversationStats(i)
  \/ \E i \in TurnIds : A_UpdateProfileUsage(i)
  \/ \E i \in TurnIds : A_PersistenceFails(i)
  \/ \E i \in TurnIds : B_Conversation(i)
  \/ \E i \in TurnIds : B_BeginGeneration(i)
  \/ \E i \in TurnIds : B_GeneratedAndCommitted(i)
  \/ \E i \in TurnIds : B_GenerationFails(i)
  \/ \E i \in TurnIds : BS_Conversation(i)
  \/ \E i \in TurnIds : BS_BeginGeneration(i)
  \/ \E i \in TurnIds : BS_StreamChunk(i)
  \/ \E i \in TurnIds : BS_StreamEnds(i)
  \/ \E i \in TurnIds : BS_GenerationFails(i)
  \/ \E i \in TurnIds : BS_CommitFails(i)

SpecChat == InitChat /\ [][NextChat]_vars


(***************************************************************************)
(* Claims about chat turns                                                 *)
(***************************************************************************)
MessagesOf(i) ==
  {k \in 1..Len(messages[turn[i].v]) : messages[turn[i].v][k].turn = i}

Succeeded(i) ==
  /\ turn[i].pc = "done" /\ turn[i].status = 200
  /\ turn[i].mode = "stream" =>
       (turn[i].out # <<>> /\ turn[i].out[Len(turn[i].out)] # "error")

Latest(i) == \A j \in TurnIds : j > i => turn[j].pc = "idle"

\* C5 as stated: in Variant A a successful chat turn increases the
\* conversation's message_count by exactly 2 and its total_tokens by the
\* assistant message's token count.
C5_AsStated ==
  \A i \in TurnIds :
    (turn[i].v = "A" /\ Succeeded(i) /\ Latest(i)) =>
       /\ conversations.A[turn[i].conv].message_count = turn[i].mc0 + 2
       /\ conversations.A[turn[i].conv].total_tokens =
            turn[i].tt0 + messages.A[turn[i].ai].token_count

UserMessagePersisted(i) ==
  \E k \in MessagesOf(i) :
    /\ messages[turn[i].v][k].role = "user"
    /\ messages[turn[i].v][k].conversation_id = turn[i].conv

\* C6 as stated: in both variants and both modes the user message is
\* persisted in the database before LLM generation begins.
C6_AsStated ==
  \A i \in TurnIds : turn[i].pc = "generate" => UserMessagePersisted(i)

\* C6 (amended): in Variant A (both modes) and in the streamed mode of
\* Variant B the user message is committed before LLM generation begins;
\* in Variant B single-shot it is only pending in the session while the LLM
\* generates, and nothing of the turn is in the database.
C6_UserMessageBeforeGeneration ==
  \A i \in TurnIds :
    turn[i].pc = "generate" =>
      IF turn[i].v = "B" /\ turn[i].mode = "single"
      THEN MessagesOf(i) = {} /\ Len(turn[i].pending) = 1
      ELSE UserMessagePersisted(i)

\* Generation is under way in a Variant A stream that has produced a chunk.
C6_Witness ==
  \E i \in TurnIds :
    /\ turn[i].pc = "generate" /\ turn[i].v = "A" /\ turn[i].mode = "stream"
    /\ turn[i].chunks # <<>>


(***************************************************************************)
(* ------------------------------  DOCUMENTS  ---------------------------- *)
(* documents[v] is the documents table of variant v (row id = position).   *)
(* upl[i] is the i-th upload request, fetched the last answer of a get or  *)
(* delete request.  File names are sequences of characters.                *)
(***************************************************************************)
MaxUploads == 2
MaxAccess == 1
UploadIds == 1..MaxUploads
DocUsers == {1, 2}

max_file_size_mb == 50
max_file_size == 10485760
allowed_file_types_A ==
  {<<"p", "d", "f">>, <<"t", "x", "t">>, <<"d", "o", "c", "x">>, <<"m", "d">>}
allowed_file_types_B ==
  {<<".", "p", "d", "f">>, <<".", "t", "x", "t">>, <<".", "m", "d">>,
   <<".", "d", "o", "c", "x">>}

MaxBytes(v) == IF v = "A" THEN max_file_size_mb * 1024 * 1024 ELSE max_file_size

\* The bytes of an uploaded file (named) and their number.
FileBodies(v) ==
  {[data |-> "d1", size |-> 1], [data |-> "d2", size |-> MaxBytes(v)],
   [data |-> "d3", size |-> MaxBytes(v) + 1]}
  \cup (IF v = "B" THEN {[data |-> "d0", size |-> 0]} ELSE {})

\* File names sent by clients; <<>> is a part without a file name.
Filenames ==
  {<<"a", ".", "t", "x", "t">>, <<"a", ".", "T", "X", "T">>,
   <<"a", ".", "e", "x", "e">>, <<"m", "d">>, <<".", "m", "d">>,
   <<"a", ".", "t", "x", "t", ".", "e", "x", "e">>,
   <<"a", ".", "e", "x", "e", ".", "m", "d">>, <<"a", ".">>, <<>>}

\* The files clients upload: every file name with a one-byte body, and the
\* largest allowed, the too large and (Variant B, which tests file.size for
\* truth) the empty body under a good and a bad name.
UploadedFiles(v) ==
  {[filename |-> f, body |-> b] : f \in Filenames, b \in {x \in FileBodies(v) : x.data = "d1"}}
  \cup {[filename |-> f, body |-> b] :
          f \in {<<"a", ".", "t", "x", "t">>, <<"a", ".", "e", "x", "e">>},
          b \in FileBodies(v)}

unnamed_file == <<"u", "n", "n", "a", "m", "e", "d", "_", "f", "i", "l", "e">>

\* str.lower() on the characters that occur in Filenames
Lower(c) ==
  CASE c = "T" -> "t" [] c = "X" -> "x" [] OTHER -> c

\* str.rfind("."), counted from 1; 0 when there is no dot
LastDot(f) ==
  IF \E k \in 1..Len(f) : f[k] = "."
  THEN CHOOSE k \in 1..Len(f) :
         f[k] = "." /\ \A m \in (k + 1)..Len(f) : f[m] # "."
  ELSE 0

\* Variant A DocumentService._get_file_extension:
\* filename.split(".")[-1].lower() if "." in filename else ""
get_file_extension(f) ==
  IF LastDot(f) = 0 THEN <<>>
  ELSE [k \in 1..(Len(f) - LastDot(f)) |-> Lower(f[LastDot(f) + k])]

\* Variant B: Path(filename).suffix.lower(); the suffix is name[i:] for
\* i = name.rfind(".") when the dot is neither first nor last, else "".
path_suffix(f) ==
  IF LastDot(f) > 1 /\ LastDot(f) < Len(f)
  THEN [k \in 1..(Len(f) - LastDot(f) + 1) |-> Lower(f[LastDot(f) + k - 1])]
  ELSE <<>>

\* hashlib.sha256(file_content).hexdigest(): equal bytes, equal digest
sha256(data) == <<"sha256", data>>

\* Variant A DocumentService._validate_file; "" when the file passes
validate_file_A_nosize(size, filename, content_type) ==
  IF get_file_extension(filename) \notin allowed_file_types_A THEN "ValidationError"
  ELSE IF content_type = "" THEN "ValidationError"
  ELSE ""
validate_file_A(size, filename, content_type) ==
  IF size > max_file_size_mb * 1024 * 1024 THEN "ValidationError"
  ELSE IF get_file_extension(filename) \notin allowed_file_types_A THEN "ValidationError"
  ELSE IF content_type = "" THEN "ValidationError"
  ELSE ""

\* Variant B DocumentService._validate_file: the HTTP status it raises, 0
\* when the file passes
validate_file_B(size, filename) ==
  IF size # 0 /\ size > max_file_size THEN 413
  ELSE IF path_suffix(filename) \notin allowed_file_types_B THEN 400
  ELSE 0

\* Variant A DocumentService._check_duplicate: the rows the query selects
check_duplicate(ds, user_id, content_hash) ==
  {k \in 1..Len(ds) : /\ ds[k].user_id = user_id
                      /\ ds[k].content_hash = content_hash
                      /\ ds[k].is_active}

\* Variant A DocumentService.get_document: the rows the query selects
get_document_A_anyone(ds, id, user) == {k \in 1..Len(ds) : k = id}
get_document_A(ds, id, user) ==
  {k \in 1..Len(ds) : k = id /\ (ds[k].user_id = user \/ ds[k].is_public)}

\* Variant A DocumentService.delete_document: the rows the query selects
select_own_document(ds, id, user) ==
  {k \in 1..Len(ds) : k = id /\ ds[k].user_id = user}

\* Variant B DocumentService.get_document: select by id only
get_document_B(ds, id) == {k \in 1..Len(ds) : k = id}

UplIdle(v) == [pc |-> "idle", v |-> v, user |-> 0, hash |-> <<>>, is_public |-> FALSE,
            badext |-> FALSE, oversize |-> FALSE, dup |-> FALSE,
            status |-> 0, error |-> "", doc |-> 0]
NoFetch == [done |-> FALSE, op |-> "", v |-> "", status |-> 0,
            exists |-> FALSE, owner |-> FALSE, public |-> FALSE,
            deleted |-> FALSE]

\* The answer to a get or delete request of user u for document id, with
\* what the table says about that document (history fields of the answer).
Answer(op, v, u, id, status) ==
  LET ds == documents[v]
      there == id <= Len(ds)
  IN  [done |-> TRUE, op |-> op, v |-> v, status |-> status,
       exists |-> there,
       owner |-> there /\ ds[id].user_id = u,
       public |-> there /\ v = "A" /\ ds[id].is_public,
       deleted |-> there /\ v = "A" /\ ~ds[id].is_active]

DocFrame == UNCHANGED <<now, tok, resp, vres, users, profiles, reg,
                        conversations, messages, turn,
  probe,
  login,
  sess,
  cli,
  ctx,
  bg,
  cc,
  st,
  dst,
  repl,
  chk>>

\* The application the uploads, gets and deletes are sent to.
Deployed(v) == \A i \in UploadIds : upl[i].v = v
\* An upload that ended without creating a row: its error answer is due.
Refused(i) == upl[i].pc = "done" /\ upl[i].doc = 0

\* No answer is waiting to be sent.
DocQuiet == ~fetched.done /\ \A j \in UploadIds : ~Refused(j)

\* Uploads arrive in the order of their numbers, and at most two of them
\* overlap.
MayArrive(i) ==
  \A j \in UploadIds :
    j < i => (upl[j].pc # "idle" /\ (j < i - 1 => upl[j].pc = "done"))

\* Get and delete requests are served between uploads.
NoUploadInFlight == \A j \in UploadIds : upl[j].pc \in {"idle", "done"}

RECURSIVE TotalAccess(_)
TotalAccess(ds) ==
  IF ds = <<>> THEN 0 ELSE ds[1].access_count + TotalAccess(Tail(ds))

\* The extension of a file name as a client reads it: the characters after
\* the last dot, letter case ignored; none without a dot.
Extension(f) ==
  IF \E k \in 1..Len(f) : f[k] = "."
  THEN LET d == CHOOSE k \in 1..Len(f) :
                  f[k] = "." /\ \A m \in (k + 1)..Len(f) : f[m] # "."
       IN  [k \in 1..(Len(f) - d) |-> IF f[d + k] = "T" THEN "t"
                                      ELSE IF f[d + k] = "X" THEN "x" ELSE f[d + k]]
  ELSE <<>>
BadExtension(v, f) ==
  IF v = "A" THEN Extension(f) \notin allowed_file_types_A
  ELSE (<<".">> \o Extension(f)) \notin allowed_file_types_B

\* A row of this user with this digest is already in the table (active or
\* not); history field of the upload, recorded when the request arrives.
HasRow(ds, u, h) ==
  \E k \in 1..Len(ds) : ds[k].user_id = u /\ ds[k].content_hash = h

\* An upload request that ended with an error; what it had computed is
\* dropped with the request.
Failed(u, status, error) ==
  [UplIdle(u.v) EXCEPT !.pc = "done", !.user = u.user, !.dup = u.dup,
                  !.status = status, !.error = error]

\* Variant A POST /documents/upload up to the first awaited query: the route
\* reads the file and fills in the defaults for a missing name or content
\* type, then upload_document validates and hashes.  ValidationError -> 400.
A_UploadValidate(i) ==
  /\ DocFrame /\ DocQuiet /\ Deployed("A")
  /\ upl[i].pc = "idle"
  /\ MayArrive(i)
  /\ \E u \in DocUsers, file \in UploadedFiles("A"), pub \in BOOLEAN :
       LET f == file.filename
           body == file.body
           ctype == IF f = <<>> THEN "" ELSE "text/plain"
           name == IF f = <<>> THEN unnamed_file ELSE f
           ct == IF ctype = "" THEN "application/octet-stream" ELSE ctype
           err == validate_file_A(body.size, name, ct)
           req == [UplIdle("A") EXCEPT !.user = u,
                                  !.badext = BadExtension("A", f),
                                  !.oversize = body.size > MaxBytes("A")]
       IN  /\ (err # "") => ~pub
           /\ upl' = [upl EXCEPT ![i] =
                IF err # ""
                THEN [req EXCEPT !.pc = "done", !.status = 400, !.error = err]
                ELSE [req EXCEPT !.pc = "check", !.hash = sha256(body.data),
                                 !.is_public = pub,
                                 !.dup = HasRow(documents.A, u, sha256(body.data))]]
  /\ UNCHANGED <<documents, fetched>>

\* Variant A upload_document: existing = await self._check_duplicate(...).
\* One row -> ConflictError, several -> scalar_one_or_none raises
\* MultipleResultsFound; the route answers both with 500.
A_CheckDuplicate(i) ==
  /\ DocFrame /\ DocQuiet
  /\ upl[i].pc = "check"
  /\ LET n == Cardinality(check_duplicate(documents.A, upl[i].user, upl[i].hash)) IN
     upl' = [upl EXCEPT ![i] =
       IF n = 0 THEN [@ EXCEPT !.pc = "extract"]
       ELSE Failed(@, 500, IF n = 1 THEN "ConflictError" ELSE "MultipleResultsFound")]
  /\ UNCHANGED <<documents, fetched>>

\* Variant A upload_document: await self.processor.extract_text(...); a
\* failure becomes ValidationError -> 400.
A_ExtractText(i) ==
  /\ DocFrame /\ DocQuiet
  /\ upl[i].pc = "extract"
  /\ \E ok \in BOOLEAN :
       upl' = [upl EXCEPT ![i] =
         IF ok THEN [@ EXCEPT !.pc = "commit"]
         ELSE Failed(@, 400, "ValidationError")]
  /\ UNCHANGED <<documents, fetched>>

\* Variant A upload_document: self.db.add(document); await self.db.commit();
\* the route answers 201.
A_CommitDocument(i) ==
  /\ DocFrame /\ DocQuiet
  /\ upl[i].pc = "commit"
  /\ documents' = [documents EXCEPT !.A =
        Append(@, [user_id |-> upl[i].user, content_hash |-> upl[i].hash,
                   is_active |-> TRUE, is_public |-> upl[i].is_public,
                   processing_status |-> "completed", access_count |-> 0,
                   upload |-> i])]
  /\ upl' = [upl EXCEPT ![i] = [@ EXCEPT !.pc = "done", !.status = 201,
                                         !.doc = Len(documents.A) + 1]]
  /\ UNCHANGED fetched

\* Variant A GET /documents/{id}: get_document, access_count += 1, commit;
\* NotFoundError -> 404.
A_GetDocument ==
  /\ DocFrame /\ DocQuiet /\ Deployed("A") /\ NoUploadInFlight
  /\ \E u \in DocUsers, id \in 1..(Len(documents.A) + 1) :
       LET found == get_document_A(documents.A, id, u) IN
       IF found = {}
       THEN /\ fetched' = Answer("get", "A", u, id, 404)
            /\ UNCHANGED documents
       ELSE /\ TotalAccess(documents.A) < MaxAccess
            /\ documents' = [documents EXCEPT !.A[id].access_count = @ + 1]
            /\ fetched' = Answer("get", "A", u, id, 200)
  /\ UNCHANGED upl

\* Variant A get_user_documents (include_public=True): the active rows the
\* user owns or that are public.
get_user_documents(ds, user) ==
  {k \in 1..Len(ds) : ds[k].is_active /\ (ds[k].user_id = user \/ ds[k].is_public)}

\* Variant A GET /documents: the list of the user's documents; the answer
\* records whether a soft-deleted row is in it.
A_ListDocuments ==
  /\ DocFrame /\ DocQuiet /\ Deployed("A") /\ NoUploadInFlight
  /\ documents.A # <<>>
  /\ \E u \in DocUsers :
       fetched' = [NoFetch EXCEPT !.done = TRUE, !.op = "list", !.v = "A",
                     !.status = 200, !.exists = TRUE,
                     !.deleted = \E k \in get_user_documents(documents.A, u) :
                                    ~documents.A[k].is_active]
  /\ UNCHANGED <<documents, upl>>

\* Variant A DELETE /documents/{id}: soft delete of an own document;
\* NotFoundError -> 404.
A_DeleteDocument ==
  /\ DocFrame /\ DocQuiet /\ Deployed("A") /\ NoUploadInFlight
  /\ \E u \in DocUsers, id \in 1..(Len(documents.A) + 1) :
       IF select_own_document(documents.A, id, u) = {}
       THEN /\ fetched' = Answer("delete", "A", u, id, 404)
            /\ UNCHANGED documents
       ELSE /\ documents' = [documents EXCEPT !.A[id].is_active = FALSE]
            /\ fetched' = Answer("delete", "A", u, id, 200)
  /\ UNCHANGED upl

\* Variant B POST /documents/upload: _validate_file raises 413 or 400,
\* otherwise the row is added with status uploaded and committed.
B_UploadCreate(i) ==
  /\ DocFrame /\ DocQuiet /\ Deployed("B")
  /\ upl[i].pc = "idle"
  /\ MayArrive(i)
  /\ \E u \in DocUsers, file \in UploadedFiles("B") :
       LET f == file.filename
           body == file.body
           err == validate_file_B(body.size, f)
           req == [UplIdle("B") EXCEPT !.user = u,
                                  !.badext = BadExtension("B", f),
                                  !.oversize = body.size > MaxBytes("B")]
       IN  IF err # 0
           THEN /\ upl' = [upl EXCEPT ![i] =
                     [req EXCEPT !.pc = "done", !.status = err,
                                 !.error = "HTTPException"]]
                /\ UNCHANGED documents
           ELSE /\ documents' = [documents EXCEPT !.B =
                     Append(@, [user_id |-> u, status |-> "uploaded",
                                file_path |-> "", upload |-> i])]
                /\ upl' = [upl EXCEPT ![i] =
                     [req EXCEPT !.pc = "save", !.doc = Len(documents.B) + 1]]
  /\ UNCHANGED fetched

\* Variant B upload_document: _save_file, status processing, commit, 201; on
\* an exception status failed, commit, 500.
B_UploadSaveFile(i) ==
  /\ DocFrame /\ DocQuiet
  /\ upl[i].pc = "save"
  /\ \E ok \in BOOLEAN :
       IF ok
       THEN /\ documents' = [documents EXCEPT !.B[upl[i].doc] =
                 [@ EXCEPT !.status = "processing", !.file_path = "uploads"]]
            /\ upl' = [upl EXCEPT ![i] = [@ EXCEPT !.pc = "done", !.status = 201]]
       ELSE /\ documents' = [documents EXCEPT !.B[upl[i].doc].status = "failed"]
            /\ upl' = [upl EXCEPT ![i] = [@ EXCEPT !.pc = "done", !.status = 500,
                                                   !.error = "HTTPException"]]
  /\ UNCHANGED fetched

\* Variant B GET /documents/{id}: unknown id -> 404, document of another
\* user -> 403.
B_GetDocument ==
  /\ DocFrame /\ DocQuiet /\ Deployed("B") /\ NoUploadInFlight
  /\ \E u \in DocUsers, id \in 1..(Len(documents.B) + 1) :
       fetched' = Answer("get", "B", u, id,
                         IF get_document_B(documents.B, id) = {} THEN 404
                         ELSE IF documents.B[id].user_id # u THEN 403
                         ELSE 200)
  /\ UNCHANGED <<documents, upl>>

\* The error answer of an upload that created no row has been sent; the
\* request is over.
UploadRefused(i) ==
  /\ DocFrame
  /\ Refused(i)
  /\ upl' = [upl EXCEPT ![i] = UplIdle(upl[i].v)]
  /\ UNCHANGED <<documents, fetched>>

\* The answer of the get or delete request has been sent.
DocAnswered ==
  /\ DocFrame
  /\ fetched.done
  /\ fetched' = NoFetch
  /\ UNCHANGED <<documents, upl>>

\* One of the two applications is deployed; its documents table is empty.
InitDocs ==
  /\ documents = [A |-> <<>>, B |-> <<>>]
  /\ \E v \in Variants : upl = [i \in UploadIds |-> UplIdle(v)]
  /\ fetched = NoFetch
  /\ users = <<>> /\ profiles = <<>> /\ reg = <<>>
  /\ conversations = <<>> /\ messages = <<>> /\ turn = <<>>
  /\ now = 0 /\ tok = NoTok /\ resp = NoResp /\ vres = NoVres
  /\ chk = <<>>
  /\ repl = <<>>
  /\ dst = <<>>
  /\ st = <<>>
  /\ cc = <<>>
  /\ bg = <<>>
  /\ ctx = <<>>
  /\ cli = <<>>
  /\ sess = <<>>
  /\ login = <<>>
  /\ probe = <<>>

NextDocs ==
  \/ \E i \in UploadIds : A_UploadValidate(i)
  \/ \E i \in UploadIds : A_CheckDuplicate(i)
  \/ \E i \in UploadIds : A_ExtractText(i)
  \/ \E i \in UploadIds : A_CommitDocument(i)
  \/ A_GetDocument
  \/ A_ListDocuments
  \/ A_DeleteDocument
  \/ \E i \in UploadIds : B_UploadCreate(i)
  \/ \E i \in UploadIds : B_UploadSaveFile(i)
  \/ B_GetDocument
  \/ \E i \in UploadIds : UploadRefused(i)
  \/ DocAnswered

SpecDocs == InitDocs /\ [][NextDocs]_vars


C9_AsStated ==
  /\ \A k1, k2 \in 1..Len(documents.A) :
       (k1 # k2 /\ documents.A[k1].user_id = documents.A[k2].user_id)
          => documents.A[k1].content_hash # documents.A[k2].content_hash
  /\ \A i \in UploadIds :
       (upl[i].v = "A" /\ upl[i].dup /\ upl[i].pc = "done") =>
          (upl[i].doc = 0 /\ upl[i].status # 201)

\* C10: in both variants an upload whose extension is not in the
\* allow-list or whose size exceeds the configured maximum is rejected at
\* once (400 in Variant A; 413 for the size and 400 for the extension in
\* Variant B) and no Document row is created for it.
C10_InvalidUploadCreatesNoRow ==
  \A i \in UploadIds :
    (upl[i].pc # "idle" /\ (upl[i].badext \/ upl[i].oversize)) =>
       /\ upl[i].pc = "done" /\ upl[i].doc = 0
       /\ upl[i].status = (IF upl[i].v = "B" /\ upl[i].oversize THEN 413 ELSE 400)
       /\ \A k \in 1..Len(documents[upl[i].v]) : documents[upl[i].v][k].upload # i

\* An upload that is too large but well named has been refused after
\* another upload had created a row.
C10_Witness ==
  \E i \in UploadIds :
    /\ Refused(i) /\ upl[i].oversize /\ ~upl[i].badext
    /\ documents[upl[i].v] # <<>>

(***************************************************************************)
(* Claims about the end of a stream                                        *)
(***************************************************************************)
\* A Variant A stream whose response was started (200, event-stream body).
StreamedA(i) ==
  /\ turn[i].pc = "done" /\ turn[i].v = "A"
  /\ turn[i].mode = "stream" /\ turn[i].status = 200

\* C11 as stated: every Variant A chat stream ends with the line
\* data: [DONE] as its last output, on normal completion and on failure.
C11_AsStated ==
  \A i \in TurnIds :
    StreamedA(i) =>
      (turn[i].out # <<>> /\ turn[i].out[Len(turn[i].out)] = "[DONE]")

\* C11 (amended): a Variant A chat stream ends with data: [DONE] exactly
\* when the turn completed without an exception; a stream in which an
\* exception was raised ends with the error chunk and carries no [DONE]
\* line at all.
C11_DoneOnlyOnCompletion ==
  \A i \in TurnIds :
    StreamedA(i) =>
      /\ turn[i].out # <<>>
      /\ \A k \in 1..Len(turn[i].out) :
            turn[i].out[k] = "[DONE]" => (k = Len(turn[i].out) /\ turn[i].exc = "")
      /\ turn[i].exc = "" => turn[i].out[Len(turn[i].out)] = "[DONE]"
      /\ turn[i].exc # "" => turn[i].out[Len(turn[i].out)] = "error"

\* A Variant A stream failed after it had already delivered a chunk.
C11_Witness ==
  \E i \in TurnIds :
    /\ StreamedA(i) /\ Len(turn[i].out) >= 2
    /\ turn[i].out[1] = "chunk"
    /\ turn[i].out[Len(turn[i].out)] = "error"

RetrievalFailed(i) == turn[i].retrieval \in {"EmbeddingError", "VectorStoreError"}

MaxProbes == 3

HealthFrame == UNCHANGED <<now, tok, resp, vres, users, profiles, reg,
  conversations, messages, turn, documents, upl, fetched,
  login,
  sess,
  cli,
  ctx,
  bg,
  cc,
  st,
  dst,
  repl,
  chk>>

\* What `async with engine.begin()` and `SELECT 1` meet.
DbOutcomes == {"ok", "connect_fails", "select_fails"}
\* What llm_service.generate_embedding("test") returns or raises.
LlmOutcomes == {"vector", "empty", "LLMError"}

NoProbe == [pc |-> "idle", n |-> 0, db |-> "", status |-> "", code |-> 0,
            checks |-> [database |-> "", vector_store |-> "", llm_service |-> ""]]

\* check_db_connection: True when SELECT 1 ran, False on any exception.
check_db_connection(outcome) == outcome = "ok"

\* GET /readyz arrives: health_status = {"status": "healthy", "checks": {}}.
ReadyzStart ==
  /\ HealthFrame
  /\ probe.pc \in {"idle", "done"} /\ probe.n < MaxProbes
  /\ probe' = [NoProbe EXCEPT !.pc = "database", !.n = probe.n + 1,
                              !.status = "healthy"]

\* "Check database connectivity": check_db_connection never raises, so only
\* the body of the try runs; it records the check and leaves
\* health_status["status"] as it is.
ReadyzDatabase ==
  /\ HealthFrame
  /\ probe.pc = "database"
  /\ \E o \in DbOutcomes :
       LET db_healthy == check_db_connection(o) IN
       probe' = [probe EXCEPT !.pc = "vector_store", !.db = o,
                   !.checks.database = IF db_healthy THEN "healthy" ELSE "unhealthy"]

\* "Check vector store": get_vector_stats over the request's session.
ReadyzVectorStore ==
  /\ HealthFrame
  /\ probe.pc = "vector_store"
  /\ \E raises \in BOOLEAN :
       probe' = IF raises
                THEN [probe EXCEPT !.pc = "llm_service", !.status = "unhealthy",
                                   !.checks.vector_store = "unhealthy"]
                ELSE [probe EXCEPT !.pc = "llm_service",
                                   !.checks.vector_store = "healthy"]

\* "Check LLM service": generate_embedding("test").
ReadyzLLM ==
  /\ HealthFrame
  /\ probe.pc = "llm_service"
  /\ \E o \in LlmOutcomes :
       probe' = IF o = "LLMError"
                THEN [probe EXCEPT !.pc = "respond", !.status = "unhealthy",
                                   !.checks.llm_service = "unhealthy"]
                ELSE [probe EXCEPT !.pc = "respond",
                        !.checks.llm_service =
                           IF o = "vector" THEN "healthy" ELSE "unhealthy"]

\* "Return appropriate status code".
ReadyzRespond ==
  /\ HealthFrame
  /\ probe.pc = "respond"
  /\ probe' = [probe EXCEPT !.pc = "done",
                 !.code = IF probe.status = "unhealthy" THEN 503 ELSE 200]

InitHealth ==
  /\ probe = NoProbe
  /\ now = 0 /\ tok = NoTok /\ resp = NoResp /\ vres = NoVres
  /\ chk = <<>>
  /\ repl = <<>>
  /\ dst = <<>>
  /\ st = <<>>
  /\ cc = <<>>
  /\ bg = <<>>
  /\ ctx = <<>>
  /\ cli = <<>>
  /\ sess = <<>>
  /\ login = <<>>
  /\ users = <<>> /\ profiles = <<>> /\ reg = <<>>
  /\ conversations = <<>> /\ messages = <<>> /\ turn = <<>>
  /\ documents = <<>> /\ upl = <<>> /\ fetched = <<>>

NextHealth ==
  \/ ReadyzStart
  \/ ReadyzDatabase
  \/ ReadyzVectorStore
  \/ ReadyzLLM
  \/ ReadyzRespond

SpecHealth == InitHealth /\ [][NextHealth]_vars

\* C14 as stated: in Variant A, whenever the database connectivity check
\* fails, /readyz answers 503 and reports checks.database.status
\* "unhealthy", even when the vector-store and LLM checks succeed.
C14_AsStated ==
  (probe.pc = "done" /\ probe.db \in {"connect_fails", "select_fails"}) =>
     (probe.code = 503 /\ probe.checks.database = "unhealthy")

(***************************************************************************)
(* Login (both variants)                                                   *)
(***************************************************************************)
MaxLogins == 2

LoginFrame == UNCHANGED <<now, tok, resp, vres, profiles, reg,
  conversations, messages, turn, documents, upl, fetched, probe,
  sess,
  cli,
  ctx,
  bg,
  cc,
  st,
  dst,
  repl,
  chk>>

Passwords == {"p1", "p2"}
\* The username column is an unconstrained string, the email column an
\* EmailStr: a username may have the form of an e-mail address.
LoginUsernames == Usernames \cup Emails
LoginIdentifiers == Usernames \cup Emails \cup {"carol"}

\* passlib CryptContext(bcrypt): hash and verify.
get_password_hash(password) == <<"bcrypt", password>>
verify_password(plain_password, hashed_password) ==
  hashed_password = get_password_hash(plain_password)

\* The users table: two rows, unique usernames and unique emails (the two
\* unique indexes of the model; registration checks each column apart).
UserRows ==
  [username : LoginUsernames, email : Emails,
   hashed_password : {get_password_hash(p) : p \in Passwords},
   is_active : BOOLEAN, last_login : {0}]
UserTables ==
  {t \in [1..2 -> UserRows] :
     t[1].username # t[2].username /\ t[1].email # t[2].email}

NoLogin == [pc |-> "idle", n |-> 0, v |-> "", username |-> "", password |-> "",
            status |-> 0, token |-> NoTok, user |-> 0]

\* Variant A authenticate_user: by username, and only when no row has that
\* username by email; then the password, then is_active.  0 stands for None.
authenticate_user_A(us, username, password) ==
  LET byName  == {k \in 1..Len(us) : us[k].username = username}
      byEmail == {k \in 1..Len(us) : us[k].email = username}
      found   == IF byName # {} THEN byName ELSE byEmail
  IN IF found = {} THEN 0
     ELSE LET k == CHOOSE x \in found : TRUE IN
          IF ~verify_password(password, us[k].hashed_password) THEN 0
          ELSE IF ~us[k].is_active THEN 0
          ELSE k

\* Variant B _get_user_by_username_or_email: one SELECT with
\* username = :u OR email = :e and scalar_one_or_none(); more than one row
\* is MultipleResultsFound, which the `except Exception` turns into None.
get_user_by_username_or_email(us, username, email) ==
  LET found == {k \in 1..Len(us) : us[k].username = username \/ us[k].email = email}
  IN IF Cardinality(found) = 1 THEN CHOOSE x \in found : TRUE ELSE 0

\* Variant B authenticate_user: the row, then is_active, then the password.
authenticate_user_B(us, username, password) ==
  LET k == get_user_by_username_or_email(us, username, username) IN
  IF k = 0 THEN 0
  ELSE IF ~us[k].is_active THEN 0
  ELSE IF ~verify_password(password, us[k].hashed_password) THEN 0
  ELSE k

\* POST /login arrives with a form or body (username, password).
LoginSubmit ==
  /\ LoginFrame
  /\ login.pc \in {"idle", "done"} /\ login.n < MaxLogins
  /\ \E v \in Variants, u \in LoginIdentifiers, p \in Passwords :
       login' = [NoLogin EXCEPT !.pc = "auth", !.n = login.n + 1, !.v = v,
                                !.username = u, !.password = p]
  /\ UNCHANGED users

\* Variant A login: authenticate_user (which stamps last_login and commits),
\* then the tokens for user.username; None is 401.
A_Login ==
  /\ LoginFrame
  /\ login.pc = "auth" /\ login.v = "A"
  /\ LET k == authenticate_user_A(users, login.username, login.password) IN
     IF k = 0
     THEN /\ login' = [login EXCEPT !.pc = "done", !.status = 401]
          /\ UNCHANGED users
     ELSE /\ users' = [users EXCEPT ![k].last_login = login.n]
          /\ login' = [login EXCEPT !.pc = "done", !.status = 200, !.user = k,
                         !.token = create_access_token(users[k].username, now)]

\* Variant B AuthService.login: authenticate_user, then
\* generate_user_token(str(user.id), user.username); None is 401.
B_Login ==
  /\ LoginFrame
  /\ login.pc = "auth" /\ login.v = "B"
  /\ LET k == authenticate_user_B(users, login.username, login.password) IN
     login' = IF k = 0
              THEN [login EXCEPT !.pc = "done", !.status = 401]
              ELSE [login EXCEPT !.pc = "done", !.status = 200, !.user = k,
                                 !.token = generate_user_token(k, now)]
  /\ UNCHANGED users

InitLogin ==
  /\ users \in UserTables
  /\ login = NoLogin
  /\ probe = <<>>
  /\ now = 0 /\ tok = NoTok /\ resp = NoResp /\ vres = NoVres
  /\ chk = <<>>
  /\ repl = <<>>
  /\ dst = <<>>
  /\ st = <<>>
  /\ cc = <<>>
  /\ bg = <<>>
  /\ ctx = <<>>
  /\ cli = <<>>
  /\ sess = <<>>
  /\ profiles = <<>> /\ reg = <<>>
  /\ conversations = <<>> /\ messages = <<>> /\ turn = <<>>
  /\ documents = <<>> /\ upl = <<>> /\ fetched = <<>>

NextLogin ==
  \/ LoginSubmit
  \/ A_Login
  \/ B_Login

SpecLogin == InitLogin /\ [][NextLogin]_vars

\* The credentials are those of an existing active user: the identifier is
\* the user's username or email and the password is the user's.
ValidCredentials(us, username, password) ==
  \E k \in 1..Len(us) :
    /\ us[k].username = username \/ us[k].email = username
    /\ us[k].is_active
    /\ us[k].hashed_password = <<"bcrypt", password>>

\* C15 as stated: in both variants a login obtains a token if and only if
\* the identifier is the username or the email of an existing active user
\* and the password is that user's; every other attempt is answered 401
\* and yields no token.
C15_AsStated ==
  login.pc = "done" =>
    IF ValidCredentials(users, login.username, login.password)
    THEN login.status = 200 /\ login.token.type = "access"
    ELSE login.status = 401 /\ login.token.type = ""

(***************************************************************************)
(* Registration (Variant B)                                                *)
(* reg[i] is the i-th POST /auth/register request; it yields to other      *)
(* requests at every awaited database call.                                *)
(***************************************************************************)
\* The users table when the requests arrive: up to two rows left by
\* earlier registrations, with unique usernames and unique emails.
RegRows == [username : Usernames, email : Emails, is_active : {TRUE}]
RegTables ==
  {<<>>} \cup {<<r>> : r \in RegRows}
         \cup {t \in [1..2 -> RegRows] :
                  t[1].username # t[2].username /\ t[1].email # t[2].email}

\* The request arrives with its body (UserCreate).
B_RegStart(i) ==
  /\ RegFrame
  /\ reg[i].pc = "idle"
  /\ \E un \in Usernames, em \in Emails :
       reg' = [reg EXCEPT ![i] =
                 [pc |-> "check_existing", username |-> un, email |-> em,
                  dup |-> (\E k \in 1..Len(users) :
                             users[k].username = un \/ users[k].email = em),
                  status |-> 0, uid |-> 0]]
  /\ UNCHANGED <<users, profiles>>

\* create_user: existing_user = await _get_user_by_username_or_email(...);
\* a row is HTTPException(400), None goes on to the insert.
B_RegCheckExisting(i) ==
  /\ RegFrame
  /\ reg[i].pc = "check_existing"
  /\ reg' = [reg EXCEPT ![i] =
       IF get_user_by_username_or_email(users, reg[i].username, reg[i].email) # 0
       THEN [@ EXCEPT !.pc = "done", !.status = 400]
       ELSE [@ EXCEPT !.pc = "commit_user"]]
  /\ UNCHANGED <<users, profiles>>

\* create_user: db_session.add(db_user); await db_session.commit().  A
\* unique-constraint violation raises IntegrityError, which neither
\* create_user nor the route catches (500); otherwise the row is stored
\* and UserResponse is returned with 201.
B_RegCommitUser(i) ==
  /\ RegFrame
  /\ reg[i].pc = "commit_user"
  /\ IF UniqueViolation(users, reg[i].username, reg[i].email)
     THEN /\ reg' = [reg EXCEPT ![i] = [@ EXCEPT !.pc = "done", !.status = 500]]
          /\ UNCHANGED users
     ELSE /\ users' = Append(users, [username |-> reg[i].username,
                                     email |-> reg[i].email, is_active |-> TRUE])
          /\ reg' = [reg EXCEPT ![i] =
                       [@ EXCEPT !.pc = "done", !.status = 201,
                                 !.uid = Len(users) + 1]]
  /\ UNCHANGED profiles

InitRegisterB ==
  /\ users \in RegTables
  /\ profiles = <<>> /\ reg = [i \in RegIds |-> RegIdle]
  /\ now = 0 /\ tok = NoTok /\ resp = NoResp /\ vres = NoVres
  /\ chk = <<>>
  /\ repl = <<>>
  /\ dst = <<>>
  /\ st = <<>>
  /\ cc = <<>>
  /\ bg = <<>>
  /\ ctx = <<>>
  /\ cli = <<>>
  /\ sess = <<>>
  /\ login = <<>>
  /\ probe = <<>>
  /\ conversations = <<>> /\ messages = <<>> /\ turn = <<>>
  /\ documents = <<>> /\ upl = <<>> /\ fetched = <<>>

NextRegisterB ==
  \/ \E i \in RegIds : B_RegStart(i)
  \/ \E i \in RegIds : B_RegCheckExisting(i)
  \/ \E i \in RegIds : B_RegCommitUser(i)

SpecRegisterB == InitRegisterB /\ [][NextRegisterB]_vars

\* C16 as stated: in Variant B a registration with a schema-valid body
\* always ends with 201 and the new user (id, username, email), or with 400
\* because the username or the email is already registered; never with any
\* other outcome.
C16_AsStated ==
  \A i \in RegIds :
    reg[i].pc = "done" =>
      \/ /\ reg[i].status = 201 /\ reg[i].uid \in 1..Len(users)
         /\ users[reg[i].uid].username = reg[i].username
         /\ users[reg[i].uid].email = reg[i].email
      \/ reg[i].status = 400 /\ reg[i].dup

\* C17 as stated: in Variant A, once a document is soft-deleted, no later
\* request of any user returns it: a get by id of a soft-deleted document
\* is answered 404, and no list contains a soft-deleted document.
C17_AsStated ==
  (fetched.done /\ fetched.v = "A" /\ fetched.deleted) =>
     /\ fetched.op # "list"
     /\ fetched.op = "get" => fetched.status = 404

(***************************************************************************)
(* The request-scoped database session (both variants)                     *)
(* sess[i] is the session of the i-th request: the dependency opens it,    *)
(* yields it to the handler, and runs its teardown when the handler has    *)
(* returned or raised.  log is the sequence of calls made on the session.  *)
(***************************************************************************)
MaxRequests == 2
MaxCommits == 1
RequestIds == 1..MaxRequests

SessionFrame == UNCHANGED <<now, tok, resp, vres, users, profiles, reg,
  conversations, messages, turn, documents, upl, fetched, probe, login,
  cli,
  ctx,
  bg,
  cc,
  st,
  dst,
  repl,
  chk>>

NoSession == [pc |-> "idle", v |-> "", raised |-> FALSE, dirty |-> FALSE,
              open |-> FALSE, todo |-> <<>>, log |-> <<>>]

\* Variant A get_db, after the yield: `except Exception` rolls back and
\* re-raises, `finally` closes.
get_db_norollback(raised) == <<"close">>
get_db(raised) == IF raised THEN <<"rollback", "close">> ELSE <<"close">>

\* Variant B get_db_session, after the yield: the same try / except / finally.
get_db_session(raised) == IF raised THEN <<"rollback", "close">> ELSE <<"close">>

\* A request arrives: `async with AsyncSessionLocal() as session`, yield.
SessionOpen(i) ==
  /\ SessionFrame
  /\ sess[i].pc = "idle"
  /\ \E v \in Variants :
       sess' = [sess EXCEPT ![i] =
                  [NoSession EXCEPT !.pc = "handler", !.v = v, !.open = TRUE,
                                    !.log = <<"open">>]]

\* The handler adds or changes a row: the session has pending changes.
HandlerWrites(i) ==
  /\ SessionFrame
  /\ sess[i].pc = "handler" /\ ~sess[i].dirty
  /\ sess' = [sess EXCEPT ![i] = [@ EXCEPT !.dirty = TRUE]]

\* The handler commits.
HandlerCommits(i) ==
  /\ SessionFrame
  /\ sess[i].pc = "handler" /\ sess[i].dirty
  /\ Cardinality({k \in 1..Len(sess[i].log) : sess[i].log[k] = "commit"}) < MaxCommits
  /\ sess' = [sess EXCEPT ![i] = [@ EXCEPT !.dirty = FALSE,
                                           !.log = Append(@, "commit")]]

\* The handler returns its response: the generator is resumed normally.
HandlerReturns(i) ==
  /\ SessionFrame
  /\ sess[i].pc = "handler"
  /\ sess' = [sess EXCEPT ![i] =
       [@ EXCEPT !.pc = "teardown",
                 !.todo = IF sess[i].v = "A" THEN get_db(FALSE)
                          ELSE get_db_session(FALSE)]]

\* The handler raises (HTTPException or any other Exception): it is thrown
\* into the generator at the yield.
HandlerRaises(i) ==
  /\ SessionFrame
  /\ sess[i].pc = "handler"
  /\ sess' = [sess EXCEPT ![i] =
       [@ EXCEPT !.pc = "teardown", !.raised = TRUE,
                 !.todo = IF sess[i].v = "A" THEN get_db(TRUE)
                          ELSE get_db_session(TRUE)]]

\* await session.rollback(): pending changes are discarded.
SessionRollback(i) ==
  /\ SessionFrame
  /\ sess[i].pc = "teardown" /\ sess[i].todo # <<>>
  /\ Head(sess[i].todo) = "rollback"
  /\ sess' = [sess EXCEPT ![i] = [@ EXCEPT !.todo = Tail(@), !.dirty = FALSE,
                                           !.log = Append(@, "rollback")]]

\* await session.close() in the finally clause; the request is finished.
SessionClose(i) ==
  /\ SessionFrame
  /\ sess[i].pc = "teardown" /\ sess[i].todo # <<>>
  /\ Head(sess[i].todo) = "close"
  /\ sess' = [sess EXCEPT ![i] = [@ EXCEPT !.pc = "done", !.todo = Tail(@),
                                           !.open = FALSE,
                                           !.log = Append(@, "close")]]

InitSession ==
  /\ sess = [i \in RequestIds |-> NoSession]
  /\ now = 0 /\ tok = NoTok /\ resp = NoResp /\ vres = NoVres
  /\ chk = <<>>
  /\ repl = <<>>
  /\ dst = <<>>
  /\ st = <<>>
  /\ cc = <<>>
  /\ bg = <<>>
  /\ ctx = <<>>
  /\ cli = <<>>
  /\ login = <<>>
  /\ probe = <<>>
  /\ users = <<>> /\ profiles = <<>> /\ reg = <<>>
  /\ conversations = <<>> /\ messages = <<>> /\ turn = <<>>
  /\ documents = <<>> /\ upl = <<>> /\ fetched = <<>>

NextSession ==
  \/ \E i \in RequestIds : SessionOpen(i)
  \/ \E i \in RequestIds : HandlerWrites(i)
  \/ \E i \in RequestIds : HandlerCommits(i)
  \/ \E i \in RequestIds : HandlerReturns(i)
  \/ \E i \in RequestIds : HandlerRaises(i)
  \/ \E i \in RequestIds : SessionRollback(i)
  \/ \E i \in RequestIds : SessionClose(i)

SpecSession == InitSession /\ [][NextSession]_vars

\* C18: in both variants the request-scoped session is closed when the
\* request finishes, on success and on error alike, and whenever the
\* handler raised it was rolled back before it was closed.
C18_SessionReleased ==
  \A i \in RequestIds :
    sess[i].pc = "done" =>
      /\ ~sess[i].open
      /\ sess[i].log[Len(sess[i].log)] = "close"
      /\ sess[i].raised =>
           /\ sess[i].log[Len(sess[i].log) - 1] = "rollback"
           /\ ~sess[i].dirty

\* A Variant B request whose handler raised before any commit has
\* finished, while a request that succeeded has finished too.
C18_Witness ==
  \E i, j \in RequestIds :
    /\ sess[i].pc = "done" /\ sess[i].v = "B" /\ sess[i].raised
    /\ sess[i].log = <<"open", "rollback", "close">>
    /\ sess[j].pc = "done" /\ ~sess[j].raised

\* C19 as stated: the Variant A routes report a domain error with the
\* status of its class in the taxonomy; a chat turn that names an unknown
\* or inaccessible conversation or profile (NotFoundError) is answered 404.
C19_AsStated ==
  \A i \in TurnIds :
    (turn[i].pc = "done" /\ turn[i].v = "A" /\ turn[i].mode = "single"
       /\ turn[i].exc = "NotFoundError") => turn[i].status = 404

\* The stream of turn i (Variant B) is over and had stored its placeholder.
StreamOverB(i) ==
  /\ turn[i].pc = "done" /\ turn[i].v = "B" /\ turn[i].mode = "stream"
  /\ turn[i].ai # 0

\* C26 as stated: Variant B: after a chat stream has ended, normally or by a
\* failure in mid-stream, the conversation holds no assistant message that
\* is still the empty placeholder: the stored assistant message's content
\* is the concatenation of the tokens streamed for it.
C26_AsStated ==
  \A i \in TurnIds :
    StreamOverB(i) =>
      /\ messages.B[turn[i].ai].content = turn[i].chunks
      /\ turn[i].exc # "" => messages.B[turn[i].ai].content # <<>>

\* The request of turn i named no conversation and the turn created one,
\* which is a row of the table.
CreatedConversation(i) ==
  turn[i].req_conv = 0 /\ turn[i].conv \in 1..Len(conversations.B)

\* C27 as stated: Variant B: a single-shot turn that fails during
\* generation (500) leaves the database as it was before the request: no new
\* conversation row, no user message, no assistant message.
C27_AsStated ==
  \A i \in TurnIds :
    (turn[i].pc = "done" /\ turn[i].v = "B" /\ turn[i].mode = "single"
       /\ turn[i].status = 500 /\ turn[i].exc = "LLMError") =>
      /\ MessagesOf(i) = {}
      /\ ~CreatedConversation(i)

(***************************************************************************)
(* Variant B management CLI: cleanup_documents                             *)
(* cli.docs is the documents table (a set of rows), cli.files the set of   *)
(* paths that exist on disk; docs0 and files0 are what they were when the  *)
(* command was invoked.                                                    *)
(***************************************************************************)
MaxCliDocs == 2
MaxRuns == 2
CliDocIds == 1..MaxCliDocs

CliFrame == UNCHANGED <<now, tok, resp, vres, users, profiles, reg,
  conversations, messages, turn, documents, upl, fetched, probe, login, sess,
  ctx,
  bg,
  cc,
  st,
  dst,
  repl,
  chk>>

PathOf(id) == <<"uploads", id>>

\* The tables the command can meet: every id is absent or a row that is
\* completed or failed, with its file on disk or missing.
CliRows(id) ==
  [id : {id}, status : {"completed", "failed"}, file_path : {PathOf(id)}]
CliTables ==
  {t \in SUBSET (UNION {CliRows(id) : id \in CliDocIds}) :
     \A r1, r2 \in t : r1.id = r2.id => r1 = r2}

\* `async with x`: x must implement __aenter__ / __aexit__; an async
\* generator object does not, and the statement raises TypeError.
async_with(x) == IF x = "async_context_manager" THEN "entered" ELSE "TypeError"

\* chat.core.get_db_session is a plain `async def` with a yield: calling it
\* returns an async generator object.
get_db_session_call == "async_generator"

\* The body of the `async with` block of _cleanup.
failed_docs(ds) == {d \in ds : d.status = "failed"}
orphaned_docs(ds, fs) == {d \in ds : d.file_path \notin fs}
cleanup_body(ds, fs, dry_run) ==
  LET doomed == failed_docs(ds) \cup orphaned_docs(ds, fs) IN
  IF doomed = {} THEN [docs |-> ds, files |-> fs, out |-> "nothing"]
  ELSE IF dry_run THEN [docs |-> ds, files |-> fs, out |-> "dry run"]
  ELSE [docs |-> ds \ doomed,
        files |-> fs \ {d.file_path : d \in doomed},
        out |-> "deleted"]

\* _cleanup: init_db, then the try block; any exception is printed as
\* "Error during cleanup".
cleanup_documents_nodryrun(ds, fs, dry_run) == cleanup_body(ds, fs, FALSE)
cleanup_documents(ds, fs, dry_run) ==
  IF async_with(get_db_session_call) = "entered"
  THEN cleanup_body(ds, fs, dry_run)
  ELSE [docs |-> ds, files |-> fs, out |-> "error"]

\* `manage.py cleanup-documents [--dry-run | --execute]`; dry_run defaults
\* to True.  await init_db().
CliInvoke ==
  /\ CliFrame
  /\ cli.pc \in {"idle", "done"} /\ cli.n < MaxRuns
  /\ \E execute \in BOOLEAN :
       cli' = [cli EXCEPT !.pc = "try", !.n = @ + 1, !.dry_run = ~execute,
                          !.out = "", !.docs0 = cli.docs, !.files0 = cli.files]

\* The try block of _cleanup.
CliCleanup ==
  /\ CliFrame
  /\ cli.pc = "try"
  /\ LET r == cleanup_documents(cli.docs, cli.files, cli.dry_run) IN
     cli' = [cli EXCEPT !.pc = "finally", !.docs = r.docs, !.files = r.files,
                        !.out = r.out]

\* finally: await close_db().
CliCloseDb ==
  /\ CliFrame
  /\ cli.pc = "finally"
  /\ cli' = [cli EXCEPT !.pc = "done"]

InitCli ==
  /\ \E t \in CliTables, fs \in SUBSET {PathOf(id) : id \in CliDocIds} :
       cli = [pc |-> "idle", n |-> 0, dry_run |-> TRUE, out |-> "",
              docs |-> t, files |-> fs, docs0 |-> t, files0 |-> fs]
  /\ sess = <<>>
  /\ now = 0 /\ tok = NoTok /\ resp = NoResp /\ vres = NoVres
  /\ chk = <<>>
  /\ repl = <<>>
  /\ dst = <<>>
  /\ st = <<>>
  /\ cc = <<>>
  /\ bg = <<>>
  /\ ctx = <<>>
  /\ login = <<>>
  /\ probe = <<>>
  /\ users = <<>> /\ profiles = <<>> /\ reg = <<>>
  /\ conversations = <<>> /\ messages = <<>> /\ turn = <<>>
  /\ documents = <<>> /\ upl = <<>> /\ fetched = <<>>

NextCli ==
  \/ CliInvoke
  \/ CliCleanup
  \/ CliCloseDb

SpecCli == InitCli /\ [][NextCli]_vars

MaxPrior == 11
MaxCtxTurns == 2

\* .limit(20) in ChatService._build_conversation_context
context_limit == 20
\* settings.conversation_memory_size (default)
conversation_memory_size == 10

CtxFrame == UNCHANGED <<now, tok, resp, vres, users, profiles, reg,
  conversations, messages, turn, documents, upl, fetched,
  probe,
  login,
  sess,
  cli,
  bg,
  cc,
  st,
  dst,
  repl,
  chk>>

ChatMessage(role, content) == [role |-> role, content |-> content]

RECURSIVE Reverse(_)
Reverse(s) == IF s = <<>> THEN <<>> ELSE Append(Reverse(Tail(s)), Head(s))

Limit(s, n) == SubSeq(s, 1, IF Len(s) < n THEN Len(s) ELSE n)

\* k completed exchanges: user, assistant, user, assistant, ...
Exchanges(k) ==
  [j \in 1..(2 * k) |->
     ChatMessage(IF j % 2 = 1 THEN "user" ELSE "assistant", j)]

\* Variant A: caller context first, then the rows ordered by created_at
\* descending, limited, and reversed.
build_conversation_context(rows, additional_context) ==
  additional_context \o Reverse(Limit(Reverse(rows), context_limit))

\* messages.insert(-1, m): m goes in front of the last element.
InsertBeforeLast(s, m) ==
  IF s = <<>> THEN <<m>>
  ELSE Append(Append(SubSeq(s, 1, Len(s) - 1), m), s[Len(s)])

\* Variant B: rows ordered by created_at ascending, limited.
history_messages(rows) == Limit(rows, conversation_memory_size)

\* Variant B: system prompt, then the history, role by role.
messages_to_langchain(hist) == <<ChatMessage("system", 0)>> \o hist

CtxIdle(v, rows, n) ==
  [v |-> v, pc |-> "idle", mode |-> "", rows |-> rows, prior |-> rows,
   new |-> 0, extra |-> <<>>, sources |-> FALSE, hist |-> <<>>,
   llm |-> <<>>, n |-> n]

\* A chat request arrives for the conversation.
CtxStart ==
  /\ CtxFrame
  /\ ctx.pc = "idle" /\ ctx.n < MaxCtxTurns
  /\ \E mode \in Modes, extra \in {<<>>, <<ChatMessage("user", 0)>>},
        sources \in BOOLEAN :
       /\ ctx.v = "B" => (extra = <<>> /\ ~sources)
       /\ ctx' = [ctx EXCEPT !.pc = "start", !.mode = mode,
                             !.prior = ctx.rows, !.new = Len(ctx.rows) + 1,
                             !.extra = extra, !.sources = sources,
                             !.hist = <<>>, !.llm = <<>>]

\* Variant A: _save_message(role="user") commits the user message.
A_CtxSaveUser ==
  /\ CtxFrame
  /\ ctx.v = "A" /\ ctx.pc = "start"
  /\ ctx' = [ctx EXCEPT !.pc = "saved",
                        !.rows = Append(@, ChatMessage("user", ctx.new))]

\* Variant A: _build_conversation_context reads the conversation.
A_CtxBuild ==
  /\ CtxFrame
  /\ ctx.v = "A" /\ ctx.pc = "saved"
  /\ ctx' = [ctx EXCEPT !.pc = "built",
                        !.llm = build_conversation_context(ctx.rows, ctx.extra)]

\* Variant A: the current user message is appended, the retrieval block is
\* inserted in front of it, and the list goes to the LLM.
A_CtxHand ==
  /\ CtxFrame
  /\ ctx.v = "A" /\ ctx.pc = "built"
  /\ LET appended == Append(ctx.llm, ChatMessage("user", ctx.new)) IN
     ctx' = [ctx EXCEPT !.pc = "handed",
               !.llm = IF ctx.sources
                       THEN InsertBeforeLast(appended, ChatMessage("system", 0))
                       ELSE appended]

\* Variant B: the history query.
B_CtxHistory ==
  /\ CtxFrame
  /\ ctx.v = "B" /\ ctx.pc = "start"
  /\ ctx' = [ctx EXCEPT !.pc = "built", !.hist = history_messages(ctx.rows)]

\* Variant B: the user message is added to the session (the stream also
\* commits it together with the assistant placeholder) and
\* generate_response / stream_response build the list.
B_CtxHand ==
  /\ CtxFrame
  /\ ctx.v = "B" /\ ctx.pc = "built"
  /\ ctx' = [ctx EXCEPT !.pc = "handed",
               !.rows = IF ctx.mode = "stream"
                        THEN @ \o <<ChatMessage("user", ctx.new),
                                    ChatMessage("assistant", ctx.new + 1)>>
                        ELSE @,
               !.llm = Append(messages_to_langchain(ctx.hist),
                              ChatMessage("user", ctx.new))]

\* The LLM answers and the assistant message is stored.
CtxGenerated ==
  /\ CtxFrame
  /\ ctx.pc = "handed"
  /\ ctx' = [ctx EXCEPT !.pc = "idle", !.n = @ + 1,
               !.rows = IF ctx.v = "B" /\ ctx.mode = "stream" THEN @
                        ELSE IF ctx.v = "B"
                        THEN @ \o <<ChatMessage("user", ctx.new),
                                    ChatMessage("assistant", ctx.new + 1)>>
                        ELSE Append(@, ChatMessage("assistant", ctx.new + 1))]

\* The LLM call raises: Variant A keeps the committed user message, Variant
\* B single-shot rolls back, the Variant B stream keeps what it committed.
CtxGenerationFails ==
  /\ CtxFrame
  /\ ctx.pc = "handed"
  /\ ctx' = [ctx EXCEPT !.pc = "idle", !.n = @ + 1]

InitContext ==
  /\ \E v \in Variants, k \in 0..MaxPrior : ctx = CtxIdle(v, Exchanges(k), 0)
  /\ cli = <<>>
  /\ sess = <<>>
  /\ now = 0 /\ tok = NoTok /\ resp = NoResp /\ vres = NoVres
  /\ chk = <<>>
  /\ repl = <<>>
  /\ dst = <<>>
  /\ st = <<>>
  /\ cc = <<>>
  /\ bg = <<>>
  /\ login = <<>>
  /\ probe = <<>>
  /\ users = <<>> /\ profiles = <<>> /\ reg = <<>>
  /\ conversations = <<>> /\ messages = <<>> /\ turn = <<>>
  /\ documents = <<>> /\ upl = <<>> /\ fetched = <<>>

NextContext ==
  \/ CtxStart
  \/ A_CtxSaveUser
  \/ A_CtxBuild
  \/ A_CtxHand
  \/ B_CtxHistory
  \/ B_CtxHand
  \/ CtxGenerated
  \/ CtxGenerationFails

SpecContext == InitContext /\ [][NextContext]_vars

\* The rows of the conversation among the messages of a list.
FromConversation(s) == SelectSeq(s, LAMBDA m : m.content > 0)

LastN(s, n) == SubSeq(s, IF Len(s) > n THEN Len(s) - n + 1 ELSE 1, Len(s))

WindowOf(v) == IF v = "A" THEN context_limit ELSE conversation_memory_size

\* C21 as stated: the list handed to the LLM holds, of the conversation, the
\* most recent N messages that were there before the turn (A: 20, B: the
\* memory window), in chronological order, followed by the new user message,
\* which appears once and is the last user turn.
C21_AsStated ==
  ctx.pc = "handed" =>
    FromConversation(ctx.llm) =
      Append(LastN(ctx.prior, WindowOf(ctx.v)), ChatMessage("user", ctx.new))


(***************************************************************************)
(* ------------------  BACKGROUND TASKS AND SESSIONS (C22)  -------------- *)
(* A handler starts a task with asyncio.create_task and returns; the       *)
(* request's session is then closed by get_db / get_db_session.  The task  *)
(* runs on the same event loop: each awaited call of the task is begun and *)
(* ended in separate steps, and the request's close likewise.              *)
(***************************************************************************)
TaskKinds == {"A_chat", "A_upload", "B_upload"}

BgFrame == UNCHANGED <<now, tok, resp, vres, users, profiles, reg,
  conversations, messages, turn, documents, upl, fetched,
  probe,
  login,
  sess,
  cli,
  ctx,
  cc,
  st,
  dst,
  repl,
  chk>>

\* The session object the task calls: the coroutine is handed the request's
\* session (self.db of the request-scoped service, or db_session itself).
task_session(kind) == "request"

Step(op, on) == [op |-> op, on |-> on]

\* The awaited calls of the task's try block, in order; `on` is the session
\* the call goes to ("" for a call that touches no session).
TrySteps(kind) ==
  LET s == task_session(kind) IN
  IF kind = "A_chat"
  THEN <<Step("generate_embedding", ""), Step("execute", s), Step("commit", s),
         Step("generate_embedding", ""), Step("execute", s), Step("commit", s)>>
  ELSE IF kind = "A_upload"
  THEN <<Step("commit", s), Step("generate_embedding", ""),
         Step("execute", s), Step("commit", s), Step("commit", s)>>
  ELSE <<Step("execute", s), Step("extract_text", ""),
         Step("process_document", s), Step("commit", s)>>

\* The awaited calls of the task's except block.
ExceptSteps(kind) ==
  LET s == task_session(kind) IN
  IF kind = "A_chat" THEN <<>>
  ELSE IF kind = "A_upload" THEN <<Step("commit", s)>>
  ELSE <<Step("execute", s), Step("commit", s)>>

StepsOf(kind, path) == IF path = "try" THEN TrySteps(kind) ELSE ExceptSteps(kind)

\* asyncio.create_task(...) followed by the handler's return.
BgCreateTask ==
  /\ BgFrame
  /\ bg.req = "handler"
  /\ bg' = [bg EXCEPT !.req = "returned", !.path = "try", !.i = 1]

\* The dependency's finally block begins `await session.close()`.
BgCloseBegin ==
  /\ BgFrame
  /\ bg.req = "returned"
  /\ bg' = [bg EXCEPT !.req = "closing"]

\* The close completes: the request has released its session.
BgCloseEnd ==
  /\ BgFrame
  /\ bg.req = "closing"
  /\ bg' = [bg EXCEPT !.req = "released"]

\* The task begins its next awaited call.
TaskBegin ==
  /\ BgFrame
  /\ bg.req # "handler" /\ bg.path \in {"try", "except"} /\ ~bg.in_flight
  /\ bg.i <= Len(StepsOf(bg.kind, bg.path))
  /\ bg' = [bg EXCEPT !.in_flight = TRUE]

\* The call returns; after the last call of a block the task is finished.
TaskEnd ==
  /\ BgFrame
  /\ bg.in_flight
  /\ bg' = [bg EXCEPT !.in_flight = FALSE,
              !.i = @ + 1,
              !.path = IF bg.i = Len(StepsOf(bg.kind, bg.path))
                       THEN "done" ELSE @]

\* The call raises inside the try block: the except block runs.
TaskRaises ==
  /\ BgFrame
  /\ bg.in_flight /\ bg.path = "try"
  /\ bg' = [bg EXCEPT !.in_flight = FALSE, !.i = 1,
              !.path = IF ExceptSteps(bg.kind) = <<>> THEN "done" ELSE "except"]

InitBackground ==
  /\ \E kind \in TaskKinds :
       bg = [kind |-> kind, req |-> "handler", path |-> "none", i |-> 0,
             in_flight |-> FALSE]
  /\ ctx = <<>>
  /\ cli = <<>>
  /\ sess = <<>>
  /\ now = 0 /\ tok = NoTok /\ resp = NoResp /\ vres = NoVres
  /\ chk = <<>>
  /\ repl = <<>>
  /\ dst = <<>>
  /\ st = <<>>
  /\ cc = <<>>
  /\ login = <<>>
  /\ probe = <<>>
  /\ users = <<>> /\ profiles = <<>> /\ reg = <<>>
  /\ conversations = <<>> /\ messages = <<>> /\ turn = <<>>
  /\ documents = <<>> /\ upl = <<>> /\ fetched = <<>>

NextBackground ==
  \/ BgCreateTask
  \/ BgCloseBegin
  \/ BgCloseEnd
  \/ TaskBegin
  \/ TaskEnd
  \/ TaskRaises

SpecBackground == InitBackground /\ [][NextBackground]_vars

\* The task is inside a call on the request's session.
TaskOnRequestSession ==
  /\ bg.in_flight
  /\ StepsOf(bg.kind, bg.path)[bg.i].on = "request"

\* C22 as stated: a background task never uses the originating request's
\* session after the request has released it, nor while the request itself
\* is using it.
C22_AsStated ==
  TaskOnRequestSession => bg.req \notin {"closing", "released"}

(***************************************************************************)
(* ---------------  CONCURRENT TURNS ON ONE CONVERSATION (C23)  ---------- *)
(* Variant A.  Several chat turns of one user run on the same conversation *)
(* with the same profile, each request on its own session.  A row has a    *)
(* committed value and, while a transaction that updated it is open, the   *)
(* value that transaction will commit; `lock` names that transaction (the  *)
(* row lock an UPDATE takes until its transaction ends).                   *)
(***************************************************************************)
MaxConcurrent == 2
ConcurrentIds == 1..MaxConcurrent

CcFrame == UNCHANGED <<now, tok, resp, vres, users, profiles, reg,
  conversations, messages, turn, documents, upl, fetched,
  probe,
  login,
  sess,
  cli,
  ctx,
  bg,
  st,
  dst,
  repl,
  chk>>

Counters(n, t) == [count |-> n, tokens |-> t]

\* .values(message_count=Conversation.message_count + 1,
\*         total_tokens=Conversation.total_tokens + token_count): the
\* expression is evaluated by the database on the row, not on the
\* Conversation object the request loaded earlier.
conversation_stats_values_loaded(row, loaded, token_count) ==
  Counters(loaded.count + 1, loaded.tokens + token_count)
conversation_stats_values(row, loaded, token_count) ==
  Counters(row.count + 1, row.tokens + token_count)

\* .values(usage_count=Profile.usage_count + 1,
\*         total_tokens_used=Profile.total_tokens_used + token_count)
profile_usage_values(row, loaded, token_count) ==
  Counters(row.count + 1, row.tokens + token_count)

CcIdle == [pc |-> "idle", tc |-> 0, conversation |-> Counters(0, 0),
           profile |-> Counters(0, 0)]

\* The request arrives: get_conversation and _get_user_profile load the two
\* rows as committed at that moment.
CcArrives(i) ==
  /\ CcFrame
  /\ cc.t[i].pc = "idle"
  /\ cc' = [cc EXCEPT !.t[i] = [pc |-> "save_user", tc |-> 0,
                                conversation |-> cc.conv.committed,
                                profile |-> cc.prof.committed]]

\* _save_message(role="user") adds and commits the user message.
CcSaveUserMessage(i) ==
  /\ CcFrame
  /\ cc.t[i].pc = "save_user"
  /\ cc' = [cc EXCEPT !.t[i].pc = "generate", !.msgs = @ + 1]

\* The LLM answers with some token count.
CcGenerated(i) ==
  /\ CcFrame
  /\ cc.t[i].pc = "generate"
  /\ \E tc \in TokenCounts :
       cc' = [cc EXCEPT !.t[i].pc = "save_ai", !.t[i].tc = tc]

\* The LLM call raises: the turn does not complete.
CcGenerationFails(i) ==
  /\ CcFrame
  /\ cc.t[i].pc = "generate"
  /\ cc' = [cc EXCEPT !.t[i].pc = "failed"]

\* _save_message(role="assistant") adds and commits the AI message.
CcSaveAssistantMessage(i) ==
  /\ CcFrame
  /\ cc.t[i].pc = "save_ai"
  /\ cc' = [cc EXCEPT !.t[i].pc = "stats", !.msgs = @ + 1]

\* _update_conversation_stats: the UPDATE waits for the row lock, then
\* computes the new values.
CcStatsExecute(i) ==
  /\ CcFrame
  /\ cc.t[i].pc = "stats" /\ cc.conv.lock = 0
  /\ cc' = [cc EXCEPT !.t[i].pc = "stats_commit",
              !.conv.lock = i,
              !.conv.pending = conversation_stats_values(
                  cc.conv.committed, cc.t[i].conversation, cc.t[i].tc)]

\* _update_conversation_stats: await self.db.commit()
CcStatsCommit(i) ==
  /\ CcFrame
  /\ cc.t[i].pc = "stats_commit"
  /\ cc' = [cc EXCEPT !.t[i].pc = "usage",
              !.conv.lock = 0, !.conv.committed = cc.conv.pending]

\* _update_profile_usage: the UPDATE.
CcUsageExecute(i) ==
  /\ CcFrame
  /\ cc.t[i].pc = "usage" /\ cc.prof.lock = 0
  /\ cc' = [cc EXCEPT !.t[i].pc = "usage_commit",
              !.prof.lock = i,
              !.prof.pending = profile_usage_values(
                  cc.prof.committed, cc.t[i].profile, cc.t[i].tc)]

\* _update_profile_usage: await self.db.commit(); the turn completes.
CcUsageCommit(i) ==
  /\ CcFrame
  /\ cc.t[i].pc = "usage_commit"
  /\ cc' = [cc EXCEPT !.t[i].pc = "done",
              !.prof.lock = 0, !.prof.committed = cc.prof.pending]

InitConcurrent ==
  /\ \E n \in 0..1, t \in 0..1 :
       cc = [conv |-> [committed |-> Counters(n, t), pending |-> Counters(n, t),
                       lock |-> 0],
             prof |-> [committed |-> Counters(n, t), pending |-> Counters(n, t),
                       lock |-> 0],
             conv0 |-> Counters(n, t), prof0 |-> Counters(n, t),
             msgs |-> 0,
             t |-> [i \in ConcurrentIds |-> CcIdle]]
  /\ bg = <<>>
  /\ ctx = <<>>
  /\ cli = <<>>
  /\ sess = <<>>
  /\ now = 0 /\ tok = NoTok /\ resp = NoResp /\ vres = NoVres
  /\ chk = <<>>
  /\ repl = <<>>
  /\ dst = <<>>
  /\ st = <<>>
  /\ login = <<>>
  /\ probe = <<>>
  /\ users = <<>> /\ profiles = <<>> /\ reg = <<>>
  /\ conversations = <<>> /\ messages = <<>> /\ turn = <<>>
  /\ documents = <<>> /\ upl = <<>> /\ fetched = <<>>

NextConcurrent ==
  \/ \E i \in ConcurrentIds : CcArrives(i)
  \/ \E i \in ConcurrentIds : CcSaveUserMessage(i)
  \/ \E i \in ConcurrentIds : CcGenerated(i)
  \/ \E i \in ConcurrentIds : CcGenerationFails(i)
  \/ \E i \in ConcurrentIds : CcSaveAssistantMessage(i)
  \/ \E i \in ConcurrentIds : CcStatsExecute(i)
  \/ \E i \in ConcurrentIds : CcStatsCommit(i)
  \/ \E i \in ConcurrentIds : CcUsageExecute(i)
  \/ \E i \in ConcurrentIds : CcUsageCommit(i)

SpecConcurrent == InitConcurrent /\ [][NextConcurrent]_vars

RECURSIVE TokensOfCompleted(_)
TokensOfCompleted(k) ==
  IF k = 0 THEN 0
  ELSE TokensOfCompleted(k - 1) + (IF cc.t[k].pc = "done" THEN cc.t[k].tc ELSE 0)

Completed == {i \in ConcurrentIds : cc.t[i].pc = "done"}
Running == {i \in ConcurrentIds : cc.t[i].pc \notin {"idle", "done", "failed"}}

\* C23: Variant A, turns running concurrently on one conversation: once all
\* of them are over, the conversation's message_count has grown by one per
\* completed turn and its total_tokens by the sum of the completed turns'
\* token counts, and likewise the profile's usage_count and
\* total_tokens_used: no update is lost, whatever the interleaving.
C23_NoLostCounterUpdate ==
  Running = {} =>
    /\ cc.conv.committed =
         Counters(cc.conv0.count + Cardinality(Completed),
                  cc.conv0.tokens + TokensOfCompleted(MaxConcurrent))
    /\ cc.prof.committed =
         Counters(cc.prof0.count + Cardinality(Completed),
                  cc.prof0.tokens + TokensOfCompleted(MaxConcurrent))

\* All turns have completed, and each of them had loaded the conversation
\* before any of the updates was committed.
C23_Witness ==
  /\ Completed = ConcurrentIds
  /\ \A i \in ConcurrentIds : cc.t[i].conversation = cc.conv0
  /\ cc.conv.committed.count = cc.conv0.count + MaxConcurrent

(***************************************************************************)
(* ----------------  LLMService.stream_response, Variant B (C24)  -------- *)
(* The generator starts model.agenerate as a task and polls the callback   *)
(* handler, which collects the tokens and sets `done` in on_llm_end.       *)
(***************************************************************************)
MaxStreamTokens == 3

StFrame == UNCHANGED <<now, tok, resp, vres, users, profiles, reg,
  conversations, messages, turn, documents, upl, fetched,
  probe,
  login,
  sess,
  cli,
  ctx,
  bg,
  cc,
  dst,
  repl,
  chk>>

\* StreamingCallbackHandler.__init__ and the generator before its first step
StreamingCallbackHandler ==
  [task |-> "none", done |-> FALSE, tokens |-> 0, produced |-> 0,
   loop |-> "start", yielded |-> 0]

\* task = asyncio.create_task(model.agenerate([messages]))
StreamCreateTask ==
  /\ StFrame
  /\ st.loop = "start"
  /\ st' = [st EXCEPT !.task = "running", !.loop = "poll"]

\* on_llm_new_token: self.tokens.append(token)
on_llm_new_token ==
  /\ StFrame
  /\ st.task = "running" /\ ~st.done /\ st.produced < MaxStreamTokens
  /\ st' = [st EXCEPT !.tokens = @ + 1, !.produced = @ + 1]

\* on_llm_end: self.done = True
on_llm_end ==
  /\ StFrame
  /\ st.task = "running" /\ ~st.done
  /\ st' = [st EXCEPT !.done = TRUE]

\* agenerate returns after on_llm_end: the task has finished.
TaskReturns ==
  /\ StFrame
  /\ st.task = "running" /\ st.done
  /\ st' = [st EXCEPT !.task = "finished"]

\* agenerate raises (API error, timeout, cancelled connection): the task has
\* finished with an exception.  The handler defines no on_llm_error, so
\* `done` keeps the value it has.
TaskFails ==
  /\ StFrame
  /\ st.task = "running"
  /\ st' = [st EXCEPT !.task = "failed"]

\* while not callback_handler.done: a token is waiting and is yielded.
PollYield ==
  /\ StFrame
  /\ st.loop = "poll" /\ ~st.done /\ st.tokens > 0
  /\ st' = [st EXCEPT !.tokens = @ - 1, !.yielded = @ + 1]

\* while not callback_handler.done: no token, await asyncio.sleep(0.01)
PollSleep ==
  /\ StFrame
  /\ st.loop = "poll" /\ ~st.done /\ st.tokens = 0
  /\ st' = [st EXCEPT !.loop = "sleep"]

\* the sleep is over and the loop condition is evaluated again
PollWake ==
  /\ StFrame
  /\ st.loop = "sleep"
  /\ st' = [st EXCEPT !.loop = "poll"]

\* the loop condition is false: callback_handler.done is set
PollExit ==
  /\ StFrame
  /\ st.loop = "poll" /\ st.done
  /\ st' = [st EXCEPT !.loop = "drain"]

\* while callback_handler.tokens: yield callback_handler.tokens.pop(0)
DrainYield ==
  /\ StFrame
  /\ st.loop = "drain" /\ st.tokens > 0
  /\ st' = [st EXCEPT !.tokens = @ - 1, !.yielded = @ + 1]

\* await task: returns when the task has finished, raises what it raised
\* (except Exception: log and re-raise).
AwaitTask ==
  /\ StFrame
  /\ st.loop = "drain" /\ st.tokens = 0
  /\ st.task \in {"finished", "failed"}
  /\ st' = [st EXCEPT !.loop = IF st.task = "failed" THEN "raised" ELSE "returned"]

InitStream ==
  /\ st = StreamingCallbackHandler
  /\ cc = <<>>
  /\ bg = <<>>
  /\ ctx = <<>>
  /\ cli = <<>>
  /\ sess = <<>>
  /\ now = 0 /\ tok = NoTok /\ resp = NoResp /\ vres = NoVres
  /\ chk = <<>>
  /\ repl = <<>>
  /\ dst = <<>>
  /\ login = <<>>
  /\ probe = <<>>
  /\ users = <<>> /\ profiles = <<>> /\ reg = <<>>
  /\ conversations = <<>> /\ messages = <<>> /\ turn = <<>>
  /\ documents = <<>> /\ upl = <<>> /\ fetched = <<>>

NextStream ==
  \/ StreamCreateTask
  \/ on_llm_new_token
  \/ on_llm_end
  \/ TaskReturns
  \/ TaskFails
  \/ PollYield
  \/ PollSleep
  \/ PollWake
  \/ PollExit
  \/ DrainYield
  \/ AwaitTask

SpecStream == InitStream /\ [][NextStream]_vars

\* The event loop runs every coroutine that is ready: each step of the
\* generator and of the task is taken if it stays enabled.
SpecStreamFair ==
  /\ InitStream /\ [][NextStream]_vars
  /\ WF_vars(StreamCreateTask) /\ WF_vars(on_llm_end) /\ WF_vars(TaskReturns)
  /\ WF_vars(PollYield) /\ WF_vars(PollSleep) /\ WF_vars(PollWake)
  /\ WF_vars(PollExit) /\ WF_vars(DrainYield) /\ WF_vars(AwaitTask)

TaskOver == st.task \in {"finished", "failed"}
StreamOver == st.loop \in {"returned", "raised"}

\* C24 as stated: stream_response terminates once the generation task has
\* finished, also when the task fails before on_llm_end, and the task's
\* failure is raised to the caller.
C24_AsStated ==
  /\ TaskOver ~> StreamOver
  /\ (st.task = "failed") ~> (st.loop = "raised")

(***************************************************************************)
(* ---------  DOCUMENT STATUS DURING AN UPLOAD (C25, C28)  --------------- *)
(* One upload request and the background task it starts.  Both work on     *)
(* the same Document object of the same session: `obj` is the status       *)
(* attribute in memory (Variant A processing_status, Variant B status),    *)
(* `db` the committed column, `log` the successive committed values,       *)
(* `embedding` whether the row's embedding column is set.  A commit by     *)
(* either coroutine flushes the object.                                    *)
(***************************************************************************)
MaxStatusDocs == 2
StatusIds == 1..MaxStatusDocs

DsFrame == UNCHANGED <<now, tok, resp, vres, users, profiles, reg,
  conversations, messages, turn, documents, upl, fetched,
  probe,
  login,
  sess,
  cli,
  ctx,
  bg,
  cc,
  st,
  repl,
  chk>>

\* await db_session.commit(): the object's status becomes the row's status.
Commit(d) ==
  [d EXCEPT !.db = d.obj,
            !.log = IF d.log # <<>> /\ d.log[Len(d.log)] = d.obj THEN d.log
                    ELSE Append(d.log, d.obj)]

\* upload_document: the row is created with status uploaded and committed.
UploadCreate(i) ==
  /\ DsFrame
  /\ dst[i].v = "B" /\ dst[i].req = "idle"
  /\ dst' = [dst EXCEPT ![i] = Commit([dst[i] EXCEPT !.req = "save", !.obj = "uploaded"])]

\* try: _save_file, status processing, commit, create_task(...).  When
\* _save_file or the commit raises, the except branch runs instead.
UploadSaveFile(i) ==
  /\ DsFrame
  /\ dst[i].req = "save"
  /\ \E ok \in BOOLEAN :
       dst' = [dst EXCEPT ![i] = IF ok
             THEN Commit([dst[i] EXCEPT !.req = "respond", !.obj = "processing",
                                    !.file_path = TRUE, !.task = "scheduled"])
             ELSE [dst[i] EXCEPT !.req = "except"]]

\* return DocumentResponse.from_orm(document), still inside the try: it
\* returns the response (201) or raises, and then the except branch runs.
UploadRespond(i) ==
  /\ DsFrame
  /\ dst[i].req = "respond"
  /\ \E ok \in BOOLEAN :
       dst' = [dst EXCEPT ![i] = [dst[i] EXCEPT !.req = IF ok THEN "done" ELSE "except",
                        !.status = IF ok THEN 201 ELSE 0]]

\* except Exception: document.status = FAILED; the commit is awaited.
UploadExcept(i) ==
  /\ DsFrame
  /\ dst[i].req = "except"
  /\ dst' = [dst EXCEPT ![i] = [dst[i] EXCEPT !.req = "except_commit", !.obj = "failed"]]

\* the commit of the except branch completes; HTTPException(500)
UploadExceptCommitted(i) ==
  /\ DsFrame
  /\ dst[i].req = "except_commit"
  /\ dst' = [dst EXCEPT ![i] = Commit([dst[i] EXCEPT !.req = "done", !.status = 500])]

\* The task runs only while the handler is suspended in an await or over.
HandlerSuspended(i) == dst[i].req \in {"except_commit", "done"}

\* _process_document_background: select the document; return when it has
\* no file_path.
TaskSelect(i) ==
  /\ DsFrame
  /\ dst[i].v = "B" /\ dst[i].task = "scheduled" /\ HandlerSuspended(i)
  /\ dst' = [dst EXCEPT ![i] = [dst[i] EXCEPT !.task = IF dst[i].file_path THEN "extract" ELSE "done"]]

\* content = await self._extract_text(...)
TaskExtractText(i) ==
  /\ DsFrame
  /\ dst[i].task = "extract" /\ HandlerSuspended(i)
  /\ \E ok \in BOOLEAN :
       dst' = [dst EXCEPT ![i] = [dst[i] EXCEPT !.task = IF ok THEN "process" ELSE "except"]]

\* vector_store_service.process_document adds the chunks and commits.
TaskProcessDocument(i) ==
  /\ DsFrame
  /\ dst[i].task = "process" /\ HandlerSuspended(i)
  /\ \E ok \in BOOLEAN :
       dst' = [dst EXCEPT ![i] = IF ok THEN Commit([dst[i] EXCEPT !.task = "index"])
             ELSE [dst[i] EXCEPT !.task = "except"]]

\* document.status = INDEXED; await db_session.commit()
TaskIndex(i) ==
  /\ DsFrame
  /\ dst[i].task = "index" /\ HandlerSuspended(i)
  /\ \E ok \in BOOLEAN :
       dst' = [dst EXCEPT ![i] = IF ok THEN Commit([dst[i] EXCEPT !.task = "done", !.obj = "indexed"])
             ELSE [dst[i] EXCEPT !.task = "except", !.obj = "indexed"]]

\* except Exception: select the document, status FAILED, commit; a
\* secondary error is ignored.
TaskExcept(i) ==
  /\ DsFrame
  /\ dst[i].v = "B" /\ dst[i].task = "except" /\ HandlerSuspended(i)
  /\ \E ok \in BOOLEAN :
       dst' = [dst EXCEPT ![i] = IF ok THEN Commit([dst[i] EXCEPT !.task = "done", !.obj = "failed"])
             ELSE [dst[i] EXCEPT !.task = "done"]]

\* Variant A upload_document: the row is created with processing_status
\* "completed" and committed, the embedding task is started, and the
\* document is returned (201).  Validation, duplicate check or text
\* extraction may refuse the upload before (400 / 500, no row).
EmbUploadCommit(i) ==
  /\ DsFrame
  /\ dst[i].v = "A" /\ dst[i].req = "idle"
  /\ \E ok \in BOOLEAN :
       dst' = [dst EXCEPT ![i] = IF ok
             THEN Commit([dst[i] EXCEPT !.req = "done", !.obj = "completed",
                                    !.task = "scheduled", !.status = 201])
             ELSE [dst[i] EXCEPT !.req = "done", !.status = 400]]

\* _process_document_embeddings: processing_status = "processing"; commit
EmbTaskProcessing(i) ==
  /\ DsFrame
  /\ dst[i].v = "A" /\ dst[i].task = "scheduled" /\ dst[i].req = "done"
  /\ \E ok \in BOOLEAN :
       dst' = [dst EXCEPT ![i] = IF ok THEN Commit([dst[i] EXCEPT !.task = "embed", !.obj = "processing"])
             ELSE [dst[i] EXCEPT !.task = "except", !.obj = "processing"]]

\* embedding = await self.llm_service.generate_embedding(content[:8000])
EmbTaskGenerate(i) ==
  /\ DsFrame
  /\ dst[i].task = "embed"
  /\ \E ok \in BOOLEAN :
       dst' = [dst EXCEPT ![i] = [dst[i] EXCEPT !.task = IF ok THEN "store" ELSE "except"]]

\* store_document_embedding: select, document.embedding = embedding, commit;
\* on an exception rollback and VectorStoreError.
EmbTaskStore(i) ==
  /\ DsFrame
  /\ dst[i].task = "store"
  /\ \E ok \in BOOLEAN :
       dst' = [dst EXCEPT ![i] = IF ok THEN Commit([dst[i] EXCEPT !.task = "complete", !.embedding = TRUE])
             ELSE [dst[i] EXCEPT !.task = "except"]]

\* processing_status = "completed"; chunk_count = 1; commit
EmbTaskCompleted(i) ==
  /\ DsFrame
  /\ dst[i].task = "complete"
  /\ \E ok \in BOOLEAN :
       dst' = [dst EXCEPT ![i] = IF ok THEN Commit([dst[i] EXCEPT !.task = "done", !.obj = "completed"])
             ELSE [dst[i] EXCEPT !.task = "except", !.obj = "completed"]]

\* except Exception: processing_status = "failed"; commit (an exception of
\* this commit ends the task).
EmbTaskExcept(i) ==
  /\ DsFrame
  /\ dst[i].v = "A" /\ dst[i].task = "except"
  /\ \E ok \in BOOLEAN :
       dst' = [dst EXCEPT ![i] = IF ok THEN Commit([dst[i] EXCEPT !.task = "done", !.obj = "failed"])
             ELSE [dst[i] EXCEPT !.task = "done", !.obj = "failed"]]

InitDocStatus ==
  /\ \E v \in Variants :
       dst = [i \in StatusIds |->
               [v |-> v, req |-> "idle", task |-> "none", obj |-> "", db |-> "",
                log |-> <<>>, file_path |-> FALSE, embedding |-> FALSE,
                status |-> 0]]
  /\ st = <<>>
  /\ cc = <<>>
  /\ bg = <<>>
  /\ ctx = <<>>
  /\ cli = <<>>
  /\ sess = <<>>
  /\ now = 0 /\ tok = NoTok /\ resp = NoResp /\ vres = NoVres
  /\ chk = <<>>
  /\ repl = <<>>
  /\ login = <<>>
  /\ probe = <<>>
  /\ users = <<>> /\ profiles = <<>> /\ reg = <<>>
  /\ conversations = <<>> /\ messages = <<>> /\ turn = <<>>
  /\ documents = <<>> /\ upl = <<>> /\ fetched = <<>>

NextDocStatus ==
  \/ \E i \in StatusIds : UploadCreate(i)
  \/ \E i \in StatusIds : UploadSaveFile(i)
  \/ \E i \in StatusIds : UploadRespond(i)
  \/ \E i \in StatusIds : UploadExcept(i)
  \/ \E i \in StatusIds : UploadExceptCommitted(i)
  \/ \E i \in StatusIds : TaskSelect(i)
  \/ \E i \in StatusIds : TaskExtractText(i)
  \/ \E i \in StatusIds : TaskProcessDocument(i)
  \/ \E i \in StatusIds : TaskIndex(i)
  \/ \E i \in StatusIds : TaskExcept(i)
  \/ \E i \in StatusIds : EmbUploadCommit(i)
  \/ \E i \in StatusIds : EmbTaskProcessing(i)
  \/ \E i \in StatusIds : EmbTaskGenerate(i)
  \/ \E i \in StatusIds : EmbTaskStore(i)
  \/ \E i \in StatusIds : EmbTaskCompleted(i)
  \/ \E i \in StatusIds : EmbTaskExcept(i)

SpecDocStatus == InitDocStatus /\ [][NextDocStatus]_vars

StatusMoves ==
  { <<"uploaded", "processing">>, <<"uploaded", "failed">>,
    <<"processing", "indexed">>, <<"processing", "failed">> }

\* C25 as stated: the committed status of a document only moves
\* uploaded -> processing -> indexed or failed, and indexed and failed are
\* terminal, for every interleaving of the upload request with its task.
C25_AsStated ==
  \A i \in StatusIds :
    dst[i].v = "B" =>
      /\ dst[i].log # <<>> => dst[i].log[1] = "uploaded"
      /\ \A k \in 1..(Len(dst[i].log) - 1) :
           <<dst[i].log[k], dst[i].log[k + 1]>> \in StatusMoves

\* C28 as stated: Variant A: whenever a document's processing_status is
\* completed its embedding has been stored; the status is never completed
\* while embedding generation has not yet run or has failed.
C28_AsStated ==
  \A i \in StatusIds :
    (dst[i].v = "A" /\ dst[i].db = "completed") => dst[i].embedding

(***************************************************************************)
(* ----------------  INTERACTIVE CHAT CLIENTS (C29)  --------------------- *)
(* The chat loop of cli/chat_cli.py (Variant A) and of chat/cli/chat.py    *)
(* (Variant B), run by asyncio.run.  The prompt is a blocking read inside  *)
(* the coroutine.  What Ctrl-C does there depends on the interpreter:      *)
(* either KeyboardInterrupt is raised in the read, or asyncio's SIGINT     *)
(* handler requests the cancellation of the main task, which is delivered  *)
(* as CancelledError at the next await.                                    *)
(***************************************************************************)
MaxPrompts == 3

ReplFrame == UNCHANGED <<now, tok, resp, vres, users, profiles, reg,
  conversations, messages, turn, documents, upl, fetched,
  probe,
  login,
  sess,
  cli,
  ctx,
  bg,
  cc,
  st,
  dst,
  chk>>

SigintModes == {"raise", "cancel"}
SendOutcomes == {"ok", "network_error", "http_error"}

\* Where an exception raised in the body of the loop goes.  Variant A has
\* `except KeyboardInterrupt: ...; continue` and `except Exception: ...;
\* continue` inside the while loop; Variant B has its try around the whole
\* loop.  CancelledError is not an Exception.
loop_handler(v, exc) ==
  IF v = "A" /\ exc \in {"KeyboardInterrupt", "Exception"} THEN "continue"
  ELSE "exit"

\* What the client's send makes of a failed request: Variant A raises
\* (httpx error, or Exception("Message failed")), Variant B returns None or
\* yields an error chunk.
client_send(v, outcome) ==
  IF outcome = "ok" THEN "response"
  ELSE IF v = "A" THEN "Exception" ELSE "none"

\* The user enters quit / exit: break.
ReplQuit ==
  /\ ReplFrame
  /\ repl.pc = "prompt"
  /\ repl' = [repl EXCEPT !.pc = "ended", !.how = "quit", !.last = "quit",
                          !.reported = FALSE]

\* The user enters a command that awaits nothing (help, clear, new, /new):
\* continue.
ReplCommand ==
  /\ ReplFrame
  /\ repl.pc = "prompt" /\ repl.n < MaxPrompts
  /\ repl' = [repl EXCEPT !.n = @ + 1, !.last = "command", !.reported = FALSE,
                          !.conversation_id = FALSE]

\* The user enters a message: the request is sent and awaited.
ReplMessage ==
  /\ ReplFrame
  /\ repl.pc = "prompt" /\ repl.n < MaxPrompts
  /\ repl' = [repl EXCEPT !.pc = "await", !.n = @ + 1, !.last = "message",
                          !.reported = FALSE]

\* Ctrl-C while the prompt waits for input.
ReplCtrlC ==
  /\ ReplFrame
  /\ repl.pc = "prompt" /\ repl.n < MaxPrompts
  /\ repl' =
       IF repl.sigint = "cancel"
       THEN [repl EXCEPT !.n = @ + 1, !.last = "ctrl_c", !.reported = FALSE,
                         !.cancelled = TRUE]
       ELSE IF loop_handler(repl.v, "KeyboardInterrupt") = "continue"
       THEN [repl EXCEPT !.n = @ + 1, !.last = "ctrl_c", !.reported = TRUE]
       ELSE [repl EXCEPT !.n = @ + 1, !.last = "ctrl_c", !.reported = TRUE,
                         !.pc = "ended", !.how = "KeyboardInterrupt"]

\* The awaited request: a pending cancellation is delivered here; otherwise
\* the answer is shown, or the failure is reported, and the loop goes on.
ReplAwait ==
  /\ ReplFrame
  /\ repl.pc = "await"
  /\ \E outcome \in SendOutcomes :
       LET r == client_send(repl.v, outcome) IN
       repl' =
         IF repl.cancelled
         THEN [repl EXCEPT !.pc = "ended", !.how = "CancelledError",
                           !.last = "cancelled", !.cancelled = FALSE]
         ELSE IF r = "response"
         THEN [repl EXCEPT !.pc = "prompt", !.last = "answer",
                           !.conversation_id = TRUE]
         ELSE IF r = "none" \/ loop_handler(repl.v, r) = "continue"
         THEN [repl EXCEPT !.pc = "prompt", !.last = outcome, !.reported = TRUE]
         ELSE [repl EXCEPT !.pc = "ended", !.how = r, !.last = outcome,
                           !.reported = TRUE]

InitRepl ==
  /\ \E v \in Variants, m \in SigintModes :
       repl = [v |-> v, sigint |-> m, pc |-> "prompt", n |-> 0, how |-> "",
               last |-> "", reported |-> FALSE, cancelled |-> FALSE,
               conversation_id |-> FALSE]
  /\ dst = <<>>
  /\ st = <<>>
  /\ cc = <<>>
  /\ bg = <<>>
  /\ ctx = <<>>
  /\ cli = <<>>
  /\ sess = <<>>
  /\ now = 0 /\ tok = NoTok /\ resp = NoResp /\ vres = NoVres
  /\ chk = <<>>
  /\ login = <<>>
  /\ probe = <<>>
  /\ users = <<>> /\ profiles = <<>> /\ reg = <<>>
  /\ conversations = <<>> /\ messages = <<>> /\ turn = <<>>
  /\ documents = <<>> /\ upl = <<>> /\ fetched = <<>>

NextRepl ==
  \/ ReplQuit
  \/ ReplCommand
  \/ ReplMessage
  \/ ReplCtrlC
  \/ ReplAwait

SpecRepl == InitRepl /\ [][NextRepl]_vars

\* C29 as stated: in both chat clients the loop ends only on an explicit
\* quit / exit command; a network or parse error during an interaction, or
\* a Ctrl-C at a prompt, is reported and followed by the next prompt.
C29_AsStated ==
  /\ repl.pc = "ended" => repl.how = "quit"
  /\ repl.last \in {"ctrl_c", "network_error", "http_error"} =>
       (repl.reported /\ repl.pc = "prompt")

(***************************************************************************)
(* ------------------  utils/helpers.py chunk_text (C30)  ---------------- *)
(* One call of chunk_text(text, chunk_size, overlap), one action per       *)
(* iteration of its while loop.  Positions are Python's 0-based indices;   *)
(* text[i] of the source is text[i + 1] here.                              *)
(***************************************************************************)
MaxTextLen == 8
MaxChunkSize == 7
MaxTextChunks == 9

ChunkFrame == UNCHANGED <<now, tok, resp, vres, users, profiles, reg,
  conversations, messages, turn, documents, upl, fetched,
  probe,
  login,
  sess,
  cli,
  ctx,
  bg,
  cc,
  st,
  dst,
  repl>>

\* A sentence end and a character that is none; the blank also exercises
\* strip() and the `if chunk` test.
TextChars == {".", " "}

\* str.rfind(ch, start, end): the highest index in [start, end) holding ch,
\* or -1.
rfind(text, ch, start, end) ==
  LET at == {i \in start..(end - 1) : i < Len(text) /\ text[i + 1] = ch}
  IN IF at = {} THEN -1 ELSE CHOOSE i \in at : \A j \in at : j <= i

\* text[start:end] for 0 <= start.
slice(text, start, end) ==
  LET e == IF end < Len(text) THEN end ELSE Len(text)
  IN IF start >= e THEN <<>> ELSE SubSeq(text, start + 1, e)

RECURSIVE lstrip(_)
lstrip(t) == IF t # <<>> /\ Head(t) = " " THEN lstrip(Tail(t)) ELSE t

RECURSIVE rstrip(_)
rstrip(t) ==
  IF t # <<>> /\ t[Len(t)] = " " THEN rstrip(SubSeq(t, 1, Len(t) - 1)) ELSE t

strip(t) == rstrip(lstrip(t))

\* max(text.rfind('.', ...), text.rfind('!', ...), text.rfind('?', ...));
\* the texts drawn here hold '.' only.
sentence_end(text, start, end) == rfind(text, ".", start, end)

\* The end of the chunk that starts at start: start + chunk_size, pulled
\* back behind a sentence end found after 70% of the chunk
\* (sentence_end > start + chunk_size * 0.7).
chunk_end(text, chunk_size, start) ==
  LET end == start + chunk_size
      se == sentence_end(text, start, end)
  IN IF end < Len(text) /\ 10 * se > 10 * start + 7 * chunk_size
     THEN se + 1 ELSE end

\* if len(text) <= chunk_size: return [text]
ChunkWhole ==
  /\ ChunkFrame
  /\ chk.pc = "call" /\ Len(chk.text) <= chk.chunk_size
  /\ chk' = [chk EXCEPT !.pc = "returned", !.chunks = <<chk.text>>]

\* chunks = []; start = 0; the loop is entered.
ChunkEnter ==
  /\ ChunkFrame
  /\ chk.pc = "call" /\ Len(chk.text) > chk.chunk_size
  /\ chk' = [chk EXCEPT !.pc = "loop"]

\* One iteration of `while start < len(text)`.  The list of chunks is kept
\* up to MaxTextChunks entries.
ChunkIterate ==
  /\ ChunkFrame
  /\ chk.pc = "loop" /\ chk.start < Len(chk.text)
  /\ LET end == chunk_end(chk.text, chk.chunk_size, chk.start)
         chunk == strip(slice(chk.text, chk.start, end))
         start == end - chk.overlap
     IN chk' = [chk EXCEPT
                  !.chunks = IF chunk # <<>> /\ Len(@) < MaxTextChunks
                             THEN Append(@, chunk) ELSE @,
                  !.start = start,
                  !.pc = IF start >= Len(chk.text) THEN "returned" ELSE "loop"]

InitChunk ==
  /\ \E n \in 0..MaxTextLen, size \in 1..MaxChunkSize :
     \E text \in [1..n -> TextChars], overlap \in 0..(size - 1) :
       chk = [text |-> text, chunk_size |-> size, overlap |-> overlap,
              start |-> 0, chunks |-> <<>>, pc |-> "call"]
  /\ repl = <<>>
  /\ dst = <<>>
  /\ st = <<>>
  /\ cc = <<>>
  /\ bg = <<>>
  /\ ctx = <<>>
  /\ cli = <<>>
  /\ sess = <<>>
  /\ now = 0 /\ tok = NoTok /\ resp = NoResp /\ vres = NoVres
  /\ login = <<>>
  /\ probe = <<>>
  /\ users = <<>> /\ profiles = <<>> /\ reg = <<>>
  /\ conversations = <<>> /\ messages = <<>> /\ turn = <<>>
  /\ documents = <<>> /\ upl = <<>> /\ fetched = <<>>

NextChunk ==
  \/ ChunkWhole
  \/ ChunkEnter
  \/ ChunkIterate

SpecChunk == InitChunk /\ [][NextChunk]_vars

\* C30 as stated: chunk_text terminates for every text, every chunk_size > 0
\* and every overlap with 0 <= overlap < chunk_size, because each iteration
\* of the loop moves the start position strictly forward, also when the end
\* of the chunk is pulled back to a sentence end.  The loop's next iteration
\* is a function of text, chunk_size, overlap and start alone, so an
\* iteration that leaves start where it was is repeated for ever.
C30_AsStated ==
  [][(chk.pc = "loop" /\ chk'.pc = "loop") => chk'.start > chk.start]_vars
====
